---- MODULE Spec2Model ----
(***************************************************************************)
(* State-machine model of the RustRadarSim front end:                      *)
(*   - the reconnecting WebSocket channel managers                          *)
(*     (hooks/useWebSocket.ts and its analysis twin useAnalysisWebSocket),  *)
(*   - the App message router and selection state (App.tsx),                *)
(*   - the DroneGrid track-history store (components/DroneGrid).            *)
(*   - the retry executor useRetry (App.tsx) and analyze() of useAnalysis   *)
(*     with its retry loop and 30 s timeout (unnamed/part_001),             *)
(*   - the selection by list click and by canvas hit-test.                  *)
(*                                                                         *)
(* React state of a hook is modelled as plain per-manager fields that the   *)
(* setters overwrite; one event-loop task (a socket event, a timer, an      *)
(* effect run, a user call) is one action.                                  *)
(***************************************************************************)
EXTENDS Integers, Sequences, FiniteSets, TLC

\* ------------------------------------------------------------------------
\* Bounds of the exploration (not program constants)
\* ------------------------------------------------------------------------
MaxSockets == 7
MaxSends == 2
MaxNow == 8000          \* the clock stops advancing here
FastGapMs == 100        \* gap between two track-list updates of a steady stream
IdleTicks == 50         \* interval callbacks that pass during one idle period
MaxAppSockets == 2      \* connections of the tracking channel explored under the App
MaxRetryAttempts == 7   \* largest maxAttempts option handed to useRetry
MaxPairSockets == 2     \* connections of each manager explored when both hooks are mounted
MaxPairSends == 1       \* send() calls of each manager explored when both hooks are mounted
ColorSteps == 1000      \* normalized amplitudes explored: k / ColorSteps, k in 0..ColorSteps
MaxRenders == 3         \* renders of the CircularRadar explored
MaxFrames == 4          \* requestAnimationFrame calls of the CircularRadar explored
MaxViewNow == 200       \* clock (ms) up to which the DroneGrid runs next to the CircularRadar

\* ------------------------------------------------------------------------
\* Program constants
\* ------------------------------------------------------------------------
maxReconnectAttempts == 5
BaseDelayMs == 1000
CapDelayMs == 30000

Managers == {"ws", "analysis"}

CONNECTING == "CONNECTING"
OPEN == "OPEN"
CLOSING == "CLOSING"
CLOSED == "CLOSED"

NoError == "null"
ErrConnection(m) == IF m = "ws" THEN "WebSocket connection error"
                    ELSE "Analysis WebSocket connection error"
ErrFailed(m) == IF m = "ws" THEN "Failed to connect to server after multiple attempts"
                ELSE "Failed to connect to analysis server after multiple attempts"

\* Outbound messages of each channel (types.ts)
OutMessages(m) == IF m = "ws" THEN {[type |-> "start_tracking"]}
                  ELSE {[type |-> "analyze", drone_id |-> 1]}

\* JSON.stringify: the text frame carrying the message
JSONstringify(msg) == <<"json", msg>>

Min2(a, b) == IF a < b THEN a ELSE b

\* DroneGrid constants
size == 600             \* canvas size
maxRange == 50000       \* maxRange prop (default, and the value App passes)
MaxEntries == 50        \* history.positions.length > 50
WindowMs == 5000        \* now - 5000
IntervalMs == 100       \* setInterval(..., 100)

\* Tracks (TargetPosition); rcs is in hundredths
Track(id, range, az, vel, rcs) ==
    [id |-> id, range_m |-> range, azimuth_deg |-> az, vel_m_s |-> vel, rcs |-> rcs]
T1 == Track(1, 12500, 0, 10, 50)
T2 == Track(2, 25000, 90, -5, 80)
T3 == Track(3, 12500, 180, 0, 30)
T3b == Track(3, 25000, 270, 0, 30)

\* Payloads of the inbound 'targets' messages
MsgLists == {<<>>, <<T1>>, <<T2>>, <<T1, T2>>}

\* Inbound messages of the tracking channel (WebSocketMessage), one of a kind
\* the router does not know, and a 'targets' message without its payload
InMessages ==
    {[type |-> "targets", targets |-> l] : l \in MsgLists}
    \cup {[type |-> "error", message |-> "E1"],
          [type |-> "status", message |-> "S1"],
          [type |-> "bogus"],
          [type |-> "targets"]}

\* Frames a peer can deliver: JSON texts of the messages, and a text that is not JSON
InFrames == {JSONstringify(msg) : msg \in InMessages} \cup {<<"garbage">>}

\* Mutant: a message of an unknown kind is a parse failure
JSONparse_Strict(frame) ==
    IF frame[1] = "json" /\ frame[2].type \in {"targets", "error", "status"}
    THEN [ok |-> TRUE, value |-> frame[2]] ELSE [ok |-> FALSE]

\* Mutant: a text that is not JSON parses to a message of no known kind
JSONparse_Lenient(frame) ==
    IF frame[1] = "json"
    THEN [ok |-> TRUE, value |-> frame[2]]
    ELSE [ok |-> TRUE, value |-> [type |-> "text"]]

\* JSON.parse: the value of a JSON text, a SyntaxError otherwise
JSONparse(frame) ==
    IF frame[1] = "json" THEN [ok |-> TRUE, value |-> frame[2]] ELSE [ok |-> FALSE]

NullId == -1            \* selectedDroneId === null
ErrParse == "Failed to parse server message"

\* Track lists handed to DroneGrid as the targets prop
TrackLists == {<<>>, <<T1>>, <<T1, T2>>, <<T3, T3b>>}

VARIABLES
    mounted,              \* [Managers -> {"no","yes","gone"}] effect not run / mounted / cleaned up
    socks,                \* [Managers -> Seq([readyState, tx])] every WebSocket the manager created
    effectWs,             \* [Managers -> Nat] the ws returned by connect() to the mount effect (0 = null)
    socket,               \* [Managers -> Nat] useState socket (0 = null)
    connected,            \* [Managers -> BOOLEAN]
    error,                \* [Managers -> STRING]
    reconnectTimeoutRef,  \* [Managers -> Nat] id of the last timer set (0 = null)
    reconnectAttempts,    \* [Managers -> 0..]
    timers,               \* [Managers -> Seq([delay, state])] every setTimeout of the manager
    torn,                 \* [Managers -> BOOLEAN] close() or the effect cleanup has been called
    streak,               \* [Managers -> Nat] disconnects since the last successful open
    scheduled,            \* [Managers -> Nat] reconnect timers set since the last successful open
    terminalCount,        \* [Managers -> Nat] number of times the terminal error was published
    nSends,               \* [Managers -> Nat] number of send() calls
    sendRet               \* [Managers -> {"none","true","false","threw"}] outcome of the last send()

chanVars == <<mounted, socks, effectWs, socket, connected, error, reconnectTimeoutRef,
              reconnectAttempts, timers, torn, streak, scheduled, terminalCount,
              nSends, sendRet>>

VARIABLES
    now,                  \* Date.now()
    gridTargets,          \* the targets prop of the last DroneGrid effect run
    historyRef,           \* historyRef.current: id -> positions (Seq of [x, y, time])
    lastDraw,             \* "none" | "effect" | "tick": who called animate() last (at time now)
    lastShift,            \* number of positions.shift() calls in the last effect run
    removedIds,           \* ids deleted from historyRef by the last effect run
    gridMounted,          \* "no" | "yes" | "gone": the DroneGrid effect has not run / ran / was cleaned up for good
    gridLoops,            \* number of setInterval timers of the DroneGrid that are active
    drawnTrails           \* id -> the line segments the last animate() stroked for that history

gridVars == <<now, gridTargets, historyRef, lastDraw, lastShift, removedIds,
              gridMounted, gridLoops, drawnTrails>>

VARIABLES
    radarLast,            \* the last cell of the map handled: [v, drawn, r, g, b], v in 1/ColorSteps
    radarMounted,         \* "no" | "yes" | "gone"
    radarData,            \* the data prop of the last render
    radarConfig,          \* the config prop of the last render
    radarTargets,         \* the targets prop of the last render
    backgroundCanvasRef,  \* <<>> (null) or <<[id, cells]>>: the offscreen canvas
    nCanvases,            \* document.createElement('canvas') calls so far
    animationFrameRef,    \* 0 (undefined) or the id of the last frame requested
    rafPending,           \* frame requests not yet fired or cancelled: [id, targets of the closure]
    nFrames,              \* requestAnimationFrame calls so far
    nRenders,             \* renders so far
    sweepAngleRef,        \* sweep angle in half degrees
    lastFrame             \* the last animate(): [by, bg (canvas id composited, 0 none), targets]

radarVars == <<radarLast, radarMounted, radarData, radarConfig, radarTargets,
               backgroundCanvasRef, nCanvases, animationFrameRef, rafPending,
               nFrames, nRenders, sweepAngleRef, lastFrame>>

VARIABLES
    appError,             \* App error state
    status,               \* App status state
    targets,              \* App targets state (<<>> while the state is not a list)
    targetsOk,            \* the targets state is a list (FALSE: it is undefined)
    tracking,             \* App tracking state
    selectedDroneId,      \* App selectedDroneId state (NullId = null)
    needRender,           \* state changed since App last rendered and ran its effects
    onmsgSock,            \* the socket whose onmessage the App effect set last (0 = none)
    onmsgSel,             \* selectedDroneId captured by that onmessage closure
    lastPayload,          \* <<payload>> of the last 'targets' message handled, <<>> if none
    rx,                   \* the last frame handled by onmessage
    rxFlip,               \* flips each time onmessage handles a frame
    analysisResult,       \* App analysisResult state (<<>> = null, else <<[drone_id]>>)
    analyzeTarget         \* id of the selectedTarget the pending handleAnalyze passed to analyze()

appVars == <<appError, status, targets, targetsOk, tracking, selectedDroneId, needRender,
             onmsgSock, onmsgSel, lastPayload, rx, rxFlip, analysisResult, analyzeTarget>>

VARIABLES
    retryOpts,            \* useRetry options of the running execute(): [maxAttempts, delay, backoff]
    retryPc,              \* "idle" | "waiting" | "calling" | "returned" | "threw": where execute() is
    retryI,               \* the loop variable i
    retrying,             \* useRetry retrying state
    attempt,              \* useRetry attempt state
    lastError,            \* lastError of execute(): <<>> (null) or <<error>>
    retResult,            \* <<value>> execute() returned, <<>> if it has not
    retThrown,            \* <<error>> execute() threw, <<>> if it has not
    nCalls,               \* number of fn() invocations
    rejections,           \* the values the fn() promises rejected with, in order
    resolved,             \* <<value>> a fn() promise resolved with, <<>> if none did
    waits                 \* the waitTime of every setTimeout of execute(), in order

retryVars == <<retryOpts, retryPc, retryI, retrying, attempt, lastError, retResult,
               retThrown, nCalls, rejections, resolved, waits>>

VARIABLES
    online,               \* navigator.onLine read by analyze()
    anaPc,                \* "idle" | "waiting" | "fetching" | "text" | "json" | "done": where analyze() is
    anaAttempt,           \* the loop variable attempt of analyze()
    analyzing,            \* useAnalysis analyzing state
    analysisError,        \* useAnalysis error state
    anaLastError,         \* lastError of analyze(): <<>> (null) or <<message>>
    anaRet,               \* <<value>> analyze() resolved with, <<>> if it has not
    timeoutId,            \* the abort timer of the current attempt: "none" | "pending" | "cleared" | "fired"
    aborted,              \* controller.signal.aborted of the current attempt
    nFetches,             \* number of fetch() calls
    anaWaits,             \* the delay of every backoff setTimeout of analyze(), in order
    over30,               \* the request of the current attempt began 30 s ago or more
    outcomes              \* how each finished attempt ended, in order

anaVars == <<online, anaPc, anaAttempt, analyzing, analysisError, anaLastError, anaRet,
             timeoutId, aborted, nFetches, anaWaits, over30, outcomes>>

VARIABLES
    reported,             \* the arguments of the onDroneSelect calls of the last canvas click
    clicks,               \* the last two selection clicks, the latest last: [kind, hit, before]
    startLog              \* <<the last use of the start control or of its callback>>:
                          \* [via, connected, tracking, invoked]

selVars == <<reported, clicks, startLog>>

vars == <<chanVars, gridVars, radarVars, appVars, retryVars, anaVars, selVars>>

\* ------------------------------------------------------------------------
\* Helpers
\* ------------------------------------------------------------------------
SockIds(m) == 1..Len(socks[m])
TimerIds(m) == 1..Len(timers[m])
LiveSockets(m) == {s \in SockIds(m) : socks[m][s].readyState # CLOSED}
PendingTimers(m) == {t \in TimerIds(m) : timers[m][t].state = "pending"}

\* Mutant: the delay without its cap
ReconnectDelay_NoCap(attempts) == BaseDelayMs * 2^attempts

\* Mutant: the delay computed from the counter before its increment
ReconnectDelay_PreIncrement(attempts) == Min2(BaseDelayMs * 2^(attempts - 1), CapDelayMs)

\* Math.min(1000 * Math.pow(2, attempts), 30000)
ReconnectDelay(attempts) == Min2(BaseDelayMs * 2^attempts, CapDelayMs)

\* Mutant: the budget is never tested
CanReconnect_Always(attempts) == TRUE

\* Mutant: off-by-one budget test
CanReconnect_OffByOne(attempts) == attempts <= maxReconnectAttempts

\* reconnectAttempts.current < maxReconnectAttempts
CanReconnect(attempts) == attempts < maxReconnectAttempts

\* Mutant: one counter shared by the two hooks
AttemptsRef_Shared(m) == "ws"

\* const reconnectAttempts = useRef(0): the counter of the hook instance m
AttemptsRef(m) == m

\* Mutant: onopen forgets to reset the counter
AttemptsAfterOpen_NoReset(attempts) == attempts

\* reconnectAttempts.current = 0 in ws.onopen
AttemptsAfterOpen(attempts) == 0

\* WebSocket.close(): a connecting or open socket starts closing, otherwise no effect
WsClose(ss, s) ==
    IF s # 0 /\ ss[s].readyState \in {CONNECTING, OPEN}
    THEN [ss EXCEPT ![s].readyState = CLOSING]
    ELSE ss

\* clearTimeout(id): a pending timer is cancelled, otherwise no effect
ClearTimeout(ts, t) ==
    IF t # 0 /\ ts[t].state = "pending"
    THEN [ts EXCEPT ![t].state = "cleared"]
    ELSE ts

\* ------------------------------------------------------------------------
\* Initial state: hooks constructed, mount effect not yet run
\* ------------------------------------------------------------------------
InitChan ==
    /\ mounted = [m \in Managers |-> "no"]
    /\ socks = [m \in Managers |-> <<>>]
    /\ effectWs = [m \in Managers |-> 0]
    /\ socket = [m \in Managers |-> 0]
    /\ connected = [m \in Managers |-> FALSE]
    /\ error = [m \in Managers |-> NoError]
    /\ reconnectTimeoutRef = [m \in Managers |-> 0]
    /\ reconnectAttempts = [m \in Managers |-> 0]
    /\ timers = [m \in Managers |-> <<>>]
    /\ torn = [m \in Managers |-> FALSE]
    /\ streak = [m \in Managers |-> 0]
    /\ scheduled = [m \in Managers |-> 0]
    /\ terminalCount = [m \in Managers |-> 0]
    /\ nSends = [m \in Managers |-> 0]
    /\ sendRet = [m \in Managers |-> "none"]

\* ------------------------------------------------------------------------
\* connect(): new WebSocket(url) in state CONNECTING
\* ------------------------------------------------------------------------
NewSocket == [readyState |-> CONNECTING, tx |-> <<>>]

\* useEffect(() => { const ws = connect(); ... }, [connect])
MountHook(m) ==
    /\ mounted[m] = "no"
    /\ mounted' = [mounted EXCEPT ![m] = "yes"]
    /\ socks' = [socks EXCEPT ![m] = Append(@, NewSocket)]
    /\ effectWs' = [effectWs EXCEPT ![m] = Len(socks[m]) + 1]
    /\ UNCHANGED <<socket, connected, error, reconnectTimeoutRef, reconnectAttempts,
                   timers, torn, streak, scheduled, terminalCount, nSends, sendRet>>

\* One hook instance mounted per behaviour (either of the two)
Mount(m) ==
    /\ \A k \in Managers : mounted[k] = "no"
    /\ MountHook(m)

\* ws.onopen
OnOpen(m, s) ==
    /\ s \in SockIds(m)
    /\ socks[m][s].readyState = CONNECTING
    /\ socks' = [socks EXCEPT ![m][s].readyState = OPEN]
    /\ connected' = [connected EXCEPT ![m] = TRUE]
    /\ error' = [error EXCEPT ![m] = NoError]
    /\ reconnectAttempts' = [reconnectAttempts EXCEPT ![AttemptsRef(m)] = AttemptsAfterOpen(@)]
    /\ socket' = [socket EXCEPT ![m] = s]
    /\ streak' = [streak EXCEPT ![m] = 0]
    /\ scheduled' = [scheduled EXCEPT ![m] = 0]
    /\ UNCHANGED <<mounted, effectWs, reconnectTimeoutRef, timers, torn, terminalCount,
                   nSends, sendRet>>

\* The peer starts the closing handshake: readyState becomes CLOSING, no event yet
PeerClosing(m, s) ==
    /\ s \in SockIds(m)
    /\ socks[m][s].readyState = OPEN
    /\ socks' = [socks EXCEPT ![m][s].readyState = CLOSING]
    /\ UNCHANGED <<mounted, effectWs, socket, connected, error, reconnectTimeoutRef,
                   reconnectAttempts, timers, torn, streak, scheduled, terminalCount,
                   nSends, sendRet>>

\* ws.onclose, preceded by ws.onerror when the connection failed (withError)
OnClose(m, s, withError) ==
    /\ s \in SockIds(m)
    /\ socks[m][s].readyState # CLOSED
    /\ socks' = [socks EXCEPT ![m][s].readyState = CLOSED]
    /\ connected' = [connected EXCEPT ![m] = FALSE]
    /\ socket' = [socket EXCEPT ![m] = 0]
    /\ streak' = [streak EXCEPT ![m] = @ + 1]
    /\ IF CanReconnect(reconnectAttempts[AttemptsRef(m)])
       THEN /\ reconnectAttempts' = [reconnectAttempts EXCEPT ![AttemptsRef(m)] = @ + 1]
            /\ timers' = [timers EXCEPT ![m] =
                   Append(@, [delay |-> ReconnectDelay(reconnectAttempts[AttemptsRef(m)] + 1),
                              state |-> "pending"])]
            /\ reconnectTimeoutRef' = [reconnectTimeoutRef EXCEPT ![m] = Len(timers[m]) + 1]
            /\ scheduled' = [scheduled EXCEPT ![m] = @ + 1]
            /\ error' = [error EXCEPT ![m] = IF withError THEN ErrConnection(m) ELSE @]
            /\ UNCHANGED terminalCount
       ELSE /\ error' = [error EXCEPT ![m] = ErrFailed(m)]
            /\ terminalCount' = [terminalCount EXCEPT ![m] = @ + 1]
            /\ UNCHANGED <<reconnectAttempts, timers, reconnectTimeoutRef, scheduled>>
    /\ UNCHANGED <<mounted, effectWs, torn, nSends, sendRet>>

\* Mutant: the timer callback does not call connect()
TimerFire_NoConnect(m, t) ==
    /\ t \in PendingTimers(m)
    /\ timers' = [timers EXCEPT ![m][t].state = "fired"]
    /\ UNCHANGED <<mounted, socks, effectWs, socket, connected, error, reconnectTimeoutRef,
                   reconnectAttempts, torn, streak, scheduled, terminalCount,
                   nSends, sendRet>>

\* Mutant: the reconnect timer is an interval, it stays armed after connect()
TimerFire_Interval(m, t) ==
    /\ t \in PendingTimers(m)
    /\ Len(socks[m]) < MaxSockets
    /\ socks' = [socks EXCEPT ![m] = Append(@, NewSocket)]
    /\ UNCHANGED <<mounted, effectWs, socket, connected, error, reconnectTimeoutRef,
                   reconnectAttempts, timers, torn, streak, scheduled, terminalCount,
                   nSends, sendRet>>

\* The reconnect timer fires: connect()
TimerFire(m, t) ==
    /\ t \in PendingTimers(m)
    /\ Len(socks[m]) < MaxSockets
    /\ timers' = [timers EXCEPT ![m][t].state = "fired"]
    /\ socks' = [socks EXCEPT ![m] = Append(@, NewSocket)]
    /\ UNCHANGED <<mounted, effectWs, socket, connected, error, reconnectTimeoutRef,
                   reconnectAttempts, torn, streak, scheduled, terminalCount,
                   nSends, sendRet>>

\* Cleanup of the mount effect (unmount)
Cleanup(m) ==
    /\ mounted[m] = "yes"
    /\ mounted' = [mounted EXCEPT ![m] = "gone"]
    /\ timers' = [timers EXCEPT ![m] = ClearTimeout(@, reconnectTimeoutRef[m])]
    /\ socks' = [socks EXCEPT ![m] = WsClose(@, effectWs[m])]
    /\ torn' = [torn EXCEPT ![m] = TRUE]
    /\ UNCHANGED <<effectWs, socket, connected, error, reconnectTimeoutRef,
                   reconnectAttempts, streak, scheduled, terminalCount, nSends, sendRet>>

\* close()
HookClose(m) ==
    /\ mounted[m] = "yes"
    /\ socks' = [socks EXCEPT ![m] = WsClose(@, socket[m])]
    /\ torn' = [torn EXCEPT ![m] = TRUE]
    /\ UNCHANGED <<mounted, effectWs, socket, connected, error, reconnectTimeoutRef,
                   reconnectAttempts, timers, streak, scheduled, terminalCount,
                   nSends, sendRet>>

\* Mutant: send tests only that a socket is published, not its readyState
SendGuard_NoReadyState(m) == socket[m] # 0

\* send(message): the guard of the if
SendGuard(m) == socket[m] # 0 /\ socks[m][socket[m]].readyState = OPEN

\* WebSocket.send(data): throws InvalidStateError while CONNECTING, transmits while OPEN,
\* silently discards the data while CLOSING or CLOSED
WsSendThrows(ss, s) == ss[s].readyState = CONNECTING
WsSend(ss, s, data) ==
    IF ss[s].readyState = OPEN THEN [ss EXCEPT ![s].tx = Append(@, data)] ELSE ss

\* The body of send(message)
SendCall(m, msg) ==
    /\ nSends' = [nSends EXCEPT ![m] = @ + 1]
    /\ IF SendGuard(m)
       THEN IF WsSendThrows(socks[m], socket[m])
            THEN /\ sendRet' = [sendRet EXCEPT ![m] = "threw"]
                 /\ UNCHANGED socks
            ELSE /\ socks' = [socks EXCEPT ![m] = WsSend(@, socket[m], JSONstringify(msg))]
                 /\ sendRet' = [sendRet EXCEPT ![m] = "true"]
       ELSE /\ sendRet' = [sendRet EXCEPT ![m] = "false"]
            /\ UNCHANGED socks

\* send(message), called by the owner of the hook
Send(m, msg) ==
    /\ mounted[m] = "yes"
    /\ nSends[m] < MaxSends
    /\ SendCall(m, msg)
    /\ UNCHANGED <<mounted, effectWs, socket, connected, error, reconnectTimeoutRef,
                   reconnectAttempts, timers, torn, streak, scheduled, terminalCount>>

\* ========================================================================
\* DroneGrid: track-history store (unnamed/part_005)
\* ========================================================================

\* Math.cos / Math.sin of an azimuth in degrees (multiples of 90 only)
CosDeg(a) == CASE a % 360 = 0 -> 1 [] a % 360 = 90 -> 0 [] a % 360 = 180 -> -1 [] OTHER -> 0
SinDeg(a) == CASE a % 360 = 0 -> 0 [] a % 360 = 90 -> 1 [] a % 360 = 180 -> 0 [] OTHER -> -1

polarToCartesian(range, azimuthDeg) ==
    [x |-> range * CosDeg(azimuthDeg), y |-> range * SinDeg(azimuthDeg)]

\* v * scale, scale = (size * 0.4) / maxRange
Scaled(v) == (v * size * 4) \div (10 * maxRange)

\* The history entry pushed for a target at time t
Entry(target, t) ==
    LET c == polarToCartesian(target.range_m, target.azimuth_deg)
    IN [x |-> (size \div 2) + Scaled(c.x), y |-> (size \div 2) - Scaled(c.y), time |-> t]

\* Mutant: the length cap is never applied
TrimToCap_None(positions) == positions

\* Mutant: over the cap the newest entry is dropped instead of the oldest
TrimToCap_DropNewest(positions) ==
    IF Len(positions) > MaxEntries THEN SubSeq(positions, 1, MaxEntries) ELSE positions

\* if (history.positions.length > 50) history.positions.shift()
TrimToCap(positions) ==
    IF Len(positions) > MaxEntries THEN Tail(positions) ELSE positions

\* history.positions.filter((pos) => pos.time > fiveSecondsAgo)
DropOld(positions, t) ==
    LET Fresh(pos) == pos.time > t - WindowMs
    IN SelectSeq(positions, Fresh)

\* One iteration of targets.forEach
RecordOne(h, target, t) ==
    LET h1 == IF target.id \in DOMAIN h THEN h
              ELSE [i \in DOMAIN h \cup {target.id} |->
                        IF i = target.id THEN <<>> ELSE h[i]]
        pushed == Append(h1[target.id], Entry(target, t))
    IN [h1 EXCEPT ![target.id] = DropOld(TrimToCap(pushed), t)]

RECURSIVE RecordAll(_, _, _)
RecordAll(h, list, t) ==
    IF list = <<>> THEN h
    ELSE RecordAll(RecordOne(h, Head(list), t), Tail(list), t)

\* Number of shift() calls made by RecordAll
RECURSIVE CountShifts(_, _, _)
CountShifts(h, list, t) ==
    IF list = <<>> THEN 0
    ELSE (IF Head(list).id \in DOMAIN h /\ Len(h[Head(list).id]) + 1 > MaxEntries
          THEN 1 ELSE 0)
         + CountShifts(RecordOne(h, Head(list), t), Tail(list), t)

ActiveIds(list) == {list[i].id : i \in 1..Len(list)}

\* Mutant: histories of absent drones are kept
RemoveAbsent_Keep(h, list) == h

\* for (const [id] of historyRef.current) if (!activeIds.has(id)) delete
RemoveAbsent(h, list) ==
    [i \in DOMAIN h \cap ActiveIds(list) |-> h[i]]

\* Mutant: a trail needs three entries
TrailVisible_FromThree(positions) == Len(positions) >= 3

\* if (history.positions.length < 2) return
TrailVisible(positions) == Len(positions) >= 2

\* The path built for one history: moveTo(pos) at i = 0, then lineTo(nextPos)
\* for i = 0 .. length - 2
TrailPath(positions) ==
    IF ~TrailVisible(positions) THEN <<>>
    ELSE <<[op |-> "moveTo", x |-> positions[1].x, y |-> positions[1].y]>>
         \o [i \in 1..(Len(positions) - 1) |->
                [op |-> "lineTo", x |-> positions[i + 1].x, y |-> positions[i + 1].y]]

\* ctx.stroke() of a path: every lineTo adds the segment from the current
\* point to its point, which becomes the current point; moveTo only moves
RECURSIVE Stroke(_, _)
Stroke(path, cur) ==
    IF path = <<>> THEN <<>>
    ELSE IF Head(path).op = "moveTo"
         THEN Stroke(Tail(path), <<Head(path).x, Head(path).y>>)
         ELSE <<[from |-> cur, to |-> <<Head(path).x, Head(path).y>>]>>
              \o Stroke(Tail(path), <<Head(path).x, Head(path).y>>)

\* historyRef.current.forEach(...) of animate(): the segments stroked per history
Trails(h) == [id \in DOMAIN h |-> Stroke(TrailPath(h[id]), <<0, 0>>)]

\* Mutant: the cleanup leaves the interval running
GridCleanup_None(loops) == loops

\* return () => { clearInterval(interval) }
GridCleanup(loops) == loops - 1

InitGrid ==
    /\ now = 0
    /\ gridTargets = <<>>
    /\ historyRef = [i \in {} |-> <<>>]
    /\ lastDraw = "none"
    /\ lastShift = 0
    /\ removedIds = {}
    /\ gridMounted = "no"
    /\ gridLoops = 0
    /\ drawnTrails = [i \in {} |-> <<>>]

\* The render effect runs for a new targets prop, gap ms after the previous
\* event: the cleanup of the previous run, then history update, removal,
\* setInterval and the initial animate()
GridEffect(list, gap) ==
    /\ gridMounted # "gone"
    /\ now + gap <= MaxNow
    /\ now' = now + gap
    /\ gridTargets' = list
    /\ gridMounted' = "yes"
    /\ gridLoops' = (IF gridMounted = "yes" THEN GridCleanup(gridLoops) ELSE gridLoops) + 1
    /\ LET recorded == RecordAll(historyRef, list, now + gap)
       IN /\ historyRef' = RemoveAbsent(recorded, list)
          /\ removedIds' = DOMAIN recorded \ DOMAIN RemoveAbsent(recorded, list)
          /\ drawnTrails' = Trails(RemoveAbsent(recorded, list))
    /\ lastShift' = CountShifts(historyRef, list, now + gap)
    /\ lastDraw' = "effect"

\* Mutant: the interval callback records the current targets before drawing
GridTicks_Records(n) ==
    /\ gridLoops > 0
    /\ now + n * IntervalMs <= MaxNow
    /\ now' = now + n * IntervalMs
    /\ lastDraw' = "tick"
    /\ historyRef' = RecordAll(historyRef, gridTargets, now + n * IntervalMs)
    /\ drawnTrails' = Trails(historyRef')
    /\ UNCHANGED <<gridTargets, lastShift, removedIds, gridMounted, gridLoops>>

\* No new targets for n periods of an active interval: its callback has
\* called animate() every 100 ms, the last time just now
GridTicks(n) ==
    /\ gridLoops > 0
    /\ now + n * IntervalMs <= MaxNow
    /\ now' = now + n * IntervalMs
    /\ lastDraw' = "tick"
    /\ drawnTrails' = Trails(historyRef)
    /\ UNCHANGED <<gridTargets, historyRef, lastShift, removedIds, gridMounted, gridLoops>>

GridIdle == GridTicks(IdleTicks)

\* The DroneGrid unmounts: the cleanup of the last effect run
GridUnmount ==
    /\ gridMounted = "yes"
    /\ gridMounted' = "gone"
    /\ gridLoops' = GridCleanup(gridLoops)
    /\ UNCHANGED <<now, gridTargets, historyRef, lastDraw, lastShift, removedIds, drawnTrails>>

\* The DroneGrid alone: the channel and the App do not move
GridOnly == UNCHANGED <<chanVars, radarVars, appVars, retryVars, anaVars, selVars>>

\* ========================================================================
\* CircularRadar: amplitude-to-colour mapping of the background effect (part_004)
\* ========================================================================
\* The literals of the mapping, in hundredths
VisibleFrom == 1        \* normalized < 0.01
BandLow == 33           \* normalized < 0.33
BandHigh == 66          \* normalized < 0.66
BandTop == 34           \* / 0.34

\* Math.round(num / den) for num >= 0, den > 0: the nearest integer, halves up
Round(num, den) == (2 * num + den) \div (2 * den)

\* normalized < c / 100, for normalized = k / ColorSteps
Below(k, c) == 100 * k < c * ColorSteps

\* r of the three bands: round(t * 255) with t = normalized / 0.33, then 255
Red(k) ==
    IF Below(k, BandLow) THEN Round(255 * 100 * k, BandLow * ColorSteps) ELSE 255

\* Mutant: the third band starts at 128
Green_Band3From128(k) ==
    IF Below(k, BandLow) THEN 255
    ELSE IF Below(k, BandHigh)
         THEN Round(255 * BandLow * ColorSteps - 128 * (100 * k - BandLow * ColorSteps),
                    BandLow * ColorSteps)
         ELSE Round(128 * BandTop * ColorSteps - 128 * (100 * k - BandHigh * ColorSteps),
                    BandTop * ColorSteps)

\* g of the three bands: 255; round(255 - t * 128) with t = (normalized - 0.33) / 0.33;
\* round(127 - t * 127) with t = (normalized - 0.66) / 0.34
Green(k) ==
    IF Below(k, BandLow) THEN 255
    ELSE IF Below(k, BandHigh)
         THEN Round(255 * BandLow * ColorSteps - 128 * (100 * k - BandLow * ColorSteps),
                    BandLow * ColorSteps)
         ELSE Round(127 * BandTop * ColorSteps - 127 * (100 * k - BandHigh * ColorSteps),
                    BandTop * ColorSteps)

\* A cell below the visibility threshold is skipped (continue)
NoCell(k) == [v |-> k, drawn |-> FALSE, r |-> 0, g |-> 0, b |-> 0]
Cell(k) ==
    IF Below(k, VisibleFrom) THEN NoCell(k)
    ELSE [v |-> k, drawn |-> TRUE, r |-> Red(k), g |-> Green(k), b |-> 0]

\* Props of the CircularRadar. ver stands for the identity of the object
\* passed: two props of equal content and different ver are different arrays.
\* Amplitudes are in thousandths.
NoData == [ver |-> 0, map |-> <<>>]
NoConfig == [ver |-> 0, n_range_bins |-> 0, n_doppler_bins |-> 0]
NoRadarTargets == [ver |-> 0, list |-> <<>>]
RadarDatas ==
    { [ver |-> 1, map |-> <<<<0, 500>>, <<1000, 5>>>>],
      [ver |-> 2, map |-> <<<<0, 500>>, <<1000, 5>>>>],
      [ver |-> 3, map |-> <<<<0, 0>>, <<0, 0>>>>] }
RadarConfigs ==
    { [ver |-> 1, n_range_bins |-> 2, n_doppler_bins |-> 2],
      [ver |-> 2, n_range_bins |-> 1, n_doppler_bins |-> 2] }
RadarTargetLists ==
    { [ver |-> 1, list |-> <<>>],
      [ver |-> 2, list |-> <<T1>>],
      [ver |-> 3, list |-> <<T1>>] }

InitRadar ==
    /\ radarLast = NoCell(0)
    /\ radarMounted = "no"
    /\ radarData = NoData
    /\ radarConfig = NoConfig
    /\ radarTargets = NoRadarTargets
    /\ backgroundCanvasRef = <<>>
    /\ nCanvases = 0
    /\ animationFrameRef = 0
    /\ rafPending = {}
    /\ nFrames = 0
    /\ nRenders = 0
    /\ sweepAngleRef = 0
    /\ lastFrame = [by |-> "none", bg |-> 0, targets |-> <<>>]

\* One iteration of the inner loop, for a cell of normalized amplitude
\* k / ColorSteps (Math.min(value / maxValue, 1.0))
DrawSector(k) ==
    /\ radarLast' = Cell(k)
    /\ UNCHANGED <<radarMounted, radarData, radarConfig, radarTargets,
                   backgroundCanvasRef, nCanvases, animationFrameRef, rafPending,
                   nFrames, nRenders, sweepAngleRef, lastFrame>>

\* Math.max(...data.flat(), 0.001), in thousandths
RECURSIVE MaxOfSeq(_)
MaxOfSeq(q) == IF q = <<>> THEN 1
               ELSE IF Head(q) > MaxOfSeq(Tail(q)) THEN Head(q) ELSE MaxOfSeq(Tail(q))
RECURSIVE Flat(_)
Flat(map) == IF map = <<>> THEN <<>> ELSE Head(map) \o Flat(Tail(map))
MaxValue(data) == MaxOfSeq(Flat(data.map))

\* Math.min(value / maxValue, 1.0), in 1/ColorSteps
Normalized(value, maxValue) ==
    IF value >= maxValue THEN ColorSteps ELSE (value * ColorSteps) \div maxValue

\* The body of the background effect: every cell of a fresh offscreen canvas,
\* from data, config and maxValue alone
BuildBackground(data, config, maxValue) ==
    [rd \in (1..config.n_range_bins) \X (1..config.n_doppler_bins) |->
        Cell(Normalized(data.map[rd[1]][rd[2]], maxValue))]

\* Mutant: the background effect depends on data alone
BackgroundChanged_DataOnly(d0, c0, d1, c1) == d0 # d1

\* The dependency array [data, config, maxValue, size] of the background
\* effect, compared entry by entry (Object.is)
BackgroundChanged(d0, c0, d1, c1) ==
    d0 # d1 \/ c0 # c1 \/ MaxValue(d0) # MaxValue(d1)

\* Mutant: the cleanup cancels nothing
CancelFrame_None(pending, ref) == pending

\* if (animationFrameRef.current) cancelAnimationFrame(animationFrameRef.current)
CancelFrame(pending, ref) ==
    IF ref # 0 THEN {f \in pending : f.id # ref} ELSE pending

\* animate() of the closure that captured tg, run from `by`, with the frame
\* requests `pending` outstanding and the offscreen canvas `bg`
Animate(by, tg, pending, bg) ==
    /\ lastFrame' = [by |-> by,
                     bg |-> IF bg = <<>> THEN 0 ELSE bg[1].id,
                     targets |-> tg.list]
    /\ sweepAngleRef' = (sweepAngleRef + 1) % 720
    /\ nFrames' = nFrames + 1
    /\ animationFrameRef' = nFrames + 1
    /\ rafPending' = pending \cup {[id |-> nFrames + 1, targets |-> tg]}

\* The CircularRadar renders with the given props (the first render mounts
\* it) and React runs the effects whose dependencies changed, in order: the
\* background effect, then cleanup and body of the animation effect
RadarRender(data, config, tg) ==
    /\ radarMounted # "gone"
    /\ nRenders < MaxRenders
    /\ nFrames < MaxFrames
    /\ config.n_range_bins <= Len(data.map)
    /\ \A r \in 1..config.n_range_bins : config.n_doppler_bins <= Len(data.map[r])
    /\ radarMounted' = "yes"
    /\ nRenders' = nRenders + 1
    /\ radarData' = data
    /\ radarConfig' = config
    /\ radarTargets' = tg
    /\ LET first == radarMounted = "no"
           bgRun == first \/ BackgroundChanged(radarData, radarConfig, data, config)
           animRun == first \/ tg # radarTargets
           bg == IF bgRun
                 THEN <<[id |-> nCanvases + 1,
                         cells |-> BuildBackground(data, config, MaxValue(data))]>>
                 ELSE backgroundCanvasRef
       IN /\ backgroundCanvasRef' = bg
          /\ nCanvases' = IF bgRun THEN nCanvases + 1 ELSE nCanvases
          /\ IF animRun
             THEN Animate("effect", tg,
                          IF first THEN rafPending
                          ELSE CancelFrame(rafPending, animationFrameRef), bg)
             ELSE UNCHANGED <<lastFrame, sweepAngleRef, nFrames, animationFrameRef,
                              rafPending>>
    /\ UNCHANGED radarLast

\* The browser runs a pending frame callback: animate() of its closure
RadarFrame(f) ==
    /\ f \in rafPending
    /\ nFrames < MaxFrames
    /\ Animate("frame", f.targets, rafPending \ {f}, backgroundCanvasRef)
    /\ UNCHANGED <<radarLast, radarMounted, radarData, radarConfig, radarTargets,
                   backgroundCanvasRef, nCanvases, nRenders>>

\* The CircularRadar unmounts: the cleanup of the animation effect
RadarUnmount ==
    /\ radarMounted = "yes"
    /\ radarMounted' = "gone"
    /\ rafPending' = CancelFrame(rafPending, animationFrameRef)
    /\ UNCHANGED <<radarLast, radarData, radarConfig, radarTargets,
                   backgroundCanvasRef, nCanvases, animationFrameRef, nFrames,
                   nRenders, sweepAngleRef, lastFrame>>

RadarOnly == UNCHANGED <<chanVars, gridVars, appVars, retryVars, anaVars, selVars>>

\* ========================================================================
\* App: message router, selection, auto-start (App.tsx)
\* ========================================================================
InitApp ==
    /\ appError = NoError
    /\ status = "null"
    /\ targets = <<>>
    /\ targetsOk = TRUE
    /\ tracking = FALSE
    /\ selectedDroneId = NullId
    /\ needRender = FALSE
    /\ onmsgSock = 0
    /\ onmsgSel = NullId
    /\ lastPayload = <<>>
    /\ rx = <<>>
    /\ rxFlip = FALSE
    /\ analysisResult = <<>>
    /\ analyzeTarget = NullId

\* Mutant: a new track list is appended to the current one
NextTargets_Merge(old, payload) == old \o payload

\* setTargets(message.targets)
NextTargets(old, payload) == payload

\* Mutant: the selection is never cleared
ShouldClear_Never(sel, list) == FALSE

\* Mutant: every track-list update clears the selection
ShouldClear_Always(sel, list) == sel # NullId

\* selectedDroneId !== null && !message.targets.some(t => t.id === selectedDroneId)
ShouldClear(sel, list) ==
    sel # NullId /\ ~(\E i \in 1..Len(list) : list[i].id = sel)

\* message.targets of a parsed 'targets' message: a list, or undefined
HasPayload(msg) == "targets" \in DOMAIN msg

\* socket.onmessage: a message event on the socket that carries the handler.
\* In case 'targets', setTargets(message.targets) is called first; with a
\* selection captured, message.targets.some(...) then throws a TypeError on a
\* missing payload, which the catch turns into the parse error.
AppOnMessage(frame) ==
    /\ mounted["ws"] = "yes"
    /\ onmsgSock # 0
    /\ socks["ws"][onmsgSock].readyState = OPEN
    /\ rx' = frame
    /\ rxFlip' = ~rxFlip
    /\ needRender' = TRUE
    /\ LET p == JSONparse(frame)
       IN IF ~p.ok
          THEN /\ appError' = ErrParse
               /\ UNCHANGED <<status, targets, targetsOk, selectedDroneId, lastPayload>>
          ELSE CASE p.value.type = "targets" /\ HasPayload(p.value) ->
                      /\ targets' = NextTargets(targets, p.value.targets)
                      /\ targetsOk' = TRUE
                      /\ selectedDroneId' =
                             IF ShouldClear(onmsgSel, p.value.targets)
                             THEN NullId ELSE selectedDroneId
                      /\ lastPayload' = <<p.value.targets>>
                      /\ UNCHANGED <<appError, status>>
                 [] p.value.type = "targets" /\ ~HasPayload(p.value) ->
                      /\ targets' = <<>>
                      /\ targetsOk' = FALSE
                      /\ appError' = IF onmsgSel # NullId THEN ErrParse ELSE appError
                      /\ UNCHANGED <<status, selectedDroneId, lastPayload>>
                 [] p.value.type = "error" ->
                      /\ appError' = p.value.message
                      /\ status' = "null"
                      /\ UNCHANGED <<targets, targetsOk, selectedDroneId, lastPayload>>
                 [] p.value.type = "status" ->
                      /\ status' = p.value.message
                      /\ UNCHANGED <<appError, targets, targetsOk, selectedDroneId, lastPayload>>
                 [] OTHER ->
                      UNCHANGED <<appError, status, targets, targetsOk, selectedDroneId,
                                  lastPayload>>
    /\ UNCHANGED <<tracking, onmsgSock, onmsgSel, analysisResult, analyzeTarget>>
    /\ UNCHANGED <<chanVars, gridVars, radarVars, retryVars, anaVars, selVars>>

ErrNotConnected == "WebSocket not connected"

\* The body of handleStartDetection, c being the value of connected its
\* closure holds (send is always a function); the value send returns is dropped
StartDetection(c) ==
    IF ~c
    THEN /\ appError' = ErrNotConnected
         /\ UNCHANGED <<tracking, targets, targetsOk, socks, nSends, sendRet>>
    ELSE /\ tracking' = TRUE
         /\ targets' = <<>>
         /\ targetsOk' = TRUE
         /\ appError' = NoError
         /\ SendCall("ws", [type |-> "start_tracking"])

\* App renders and runs its effects: the onmessage effect (deps socket,
\* selectedDroneId) and the auto-start effect, which calls handleStartDetection
\* when connected && !tracking
AppRender ==
    /\ needRender
    /\ targetsOk
    /\ IF socket["ws"] # 0
       THEN onmsgSock' = socket["ws"] /\ onmsgSel' = selectedDroneId
       ELSE UNCHANGED <<onmsgSock, onmsgSel>>
    /\ IF connected["ws"] /\ ~tracking
       THEN /\ StartDetection(connected["ws"])
            /\ needRender' = TRUE
       ELSE /\ needRender' = FALSE
            /\ UNCHANGED <<tracking, targets, targetsOk, appError, socks, nSends, sendRet>>
    /\ UNCHANGED <<status, selectedDroneId, lastPayload, rx, rxFlip, analysisResult, analyzeTarget>>
    /\ UNCHANGED <<mounted, effectWs, socket, connected, error, reconnectTimeoutRef,
                   reconnectAttempts, timers, torn, streak, scheduled, terminalCount>>
    /\ UNCHANGED <<gridVars, radarVars, retryVars, anaVars, selVars>>

\* App renders while targets is undefined: targets.length throws, no error
\* boundary is above App, so React unmounts the tree and the cleanup of the
\* useWebSocket effect runs
AppRenderThrows ==
    /\ needRender
    /\ ~targetsOk
    /\ Cleanup("ws")
    /\ needRender' = FALSE
    /\ UNCHANGED <<appError, status, targets, targetsOk, tracking, selectedDroneId,
                   onmsgSock, onmsgSel, lastPayload, rx, rxFlip, analysisResult, analyzeTarget>>
    /\ UNCHANGED <<gridVars, radarVars, retryVars, anaVars, selVars>>

\* Mutant: a click never selects
ToggleSelection_NeverSelect(sel, id) == NullId

\* Mutant: a click always selects
ToggleSelection_AlwaysSelect(sel, id) == id

\* isSelected ? null : target.id
ToggleSelection(sel, id) == IF sel = id THEN NullId ELSE id

\* A click was made on hit (NullId: on no target): it becomes the latest of
\* the last two clicks
Clicked(kind, hit) ==
    LET all == Append(clicks, [kind |-> kind, hit |-> hit, before |-> selectedDroneId])
    IN clicks' = IF Len(all) > 2 THEN Tail(all) ELSE all

\* setSelectedDroneId(sel) in a click handler: the click is a discrete event,
\* so App re-renders and re-runs the onmessage effect before it returns
SelectByClick(sel) ==
    /\ selectedDroneId' = sel
    /\ IF socket["ws"] # 0
       THEN onmsgSock' = socket["ws"] /\ onmsgSel' = sel
       ELSE UNCHANGED <<onmsgSock, onmsgSel>>
    /\ UNCHANGED <<appError, status, targets, targetsOk, tracking, needRender,
                   lastPayload, rx, rxFlip, analysisResult, analyzeTarget>>
    /\ UNCHANGED <<chanVars, gridVars, radarVars, retryVars, anaVars, startLog>>

\* Click on a drone-item of the rendered list: toggle
AppListClick(i) ==
    /\ ~needRender
    /\ i \in 1..Len(targets)
    /\ SelectByClick(ToggleSelection(selectedDroneId, targets[i].id))
    /\ UNCHANGED reported

\* Canvas hit-test of the DroneGrid: a target is hit when its drawn position is
\* the nearest to the pointer and within the tolerance
HitTolerancePx == 15
ClickPoints == {<<360, 300>>, <<300, 180>>, <<368, 306>>, <<10, 10>>}

Dist2(p, target) ==
    LET e == Entry(target, 0)
    IN (p[1] - e.x) * (p[1] - e.x) + (p[2] - e.y) * (p[2] - e.y)

HitTest(list, p) ==
    LET near == {k \in 1..Len(list) : Dist2(p, list[k]) <= HitTolerancePx * HitTolerancePx}
        best == {k \in near : \A j \in near : Dist2(p, list[k]) <= Dist2(p, list[j])}
    IN IF near = {} THEN NullId
       ELSE list[CHOOSE k \in best : \A j \in best : k <= j].id

\* Click on the canvas of the DroneGrid (rendered while targets.length > 0):
\* onDroneSelect is called once, with the toggled hit or with null
GridClick(p) ==
    /\ ~needRender
    /\ Len(targets) > 0
    /\ LET hit == HitTest(targets, p)
           sel == IF hit = NullId THEN NullId ELSE ToggleSelection(selectedDroneId, hit)
       IN /\ SelectByClick(sel)
          /\ reported' = <<sel>>

\* An event of the tracking channel under the App: it changes hook state the
\* App renders from
AppSees ==
    /\ needRender' = TRUE
    /\ UNCHANGED <<appError, status, targets, targetsOk, tracking, selectedDroneId,
                   onmsgSock, onmsgSel, lastPayload, rx, rxFlip, analysisResult, analyzeTarget>>
    /\ UNCHANGED <<gridVars, radarVars, retryVars, anaVars, selVars>>

\* ========================================================================
\* useRetry: the retry executor (App.tsx)
\* ========================================================================
DefaultMaxAttempts == 3
DefaultDelayMs == 1000

\* An Error with a message, and a rejection value that is not an Error
Err(message) == [isError |-> TRUE, message |-> message]
NotAnError == [isError |-> FALSE, message |-> "x"]

\* What fn() can resolve with and reject with
RetryResults == {"R1", "R2"}
RetryRejections == {Err("E1"), Err("E2"), NotAnError}

\* The options a caller passes to useRetry
RetryDelays == {DefaultDelayMs, 500}
RetryOptions == [maxAttempts : 0..MaxRetryAttempts, delay : RetryDelays, backoff : BOOLEAN]

InitRetry ==
    /\ retryOpts = [maxAttempts |-> DefaultMaxAttempts, delay |-> DefaultDelayMs,
                    backoff |-> TRUE]
    /\ retryPc = "idle"
    /\ retryI = 0
    /\ retrying = FALSE
    /\ attempt = 0
    /\ lastError = <<>>
    /\ retResult = <<>>
    /\ retThrown = <<>>
    /\ nCalls = 0
    /\ rejections = <<>>
    /\ resolved = <<>>
    /\ waits = <<>>

\* Mutant: the loop runs once more
LoopContinues_OneMore(i, maxAttempts) == i <= maxAttempts

\* for (...; i < maxAttempts; ...)
LoopContinues(i, maxAttempts) == i < maxAttempts

\* if (i === maxAttempts - 1)
IsLastAttempt(i, maxAttempts) == i = maxAttempts - 1

\* const waitTime = backoff ? delay * Math.pow(2, i - 1) : delay
WaitTime(opts, i) == IF opts.backoff THEN opts.delay * 2^(i - 1) ELSE opts.delay

\* Mutant: the first error is kept
RecordError_KeepFirst(prev, e) ==
    IF prev # <<>> THEN prev[1] ELSE IF e.isError THEN e ELSE Err("Unknown error")

\* lastError = error instanceof Error ? error : new Error('Unknown error')
RecordError(prev, e) == IF e.isError THEN e ELSE Err("Unknown error")

\* Mutant: the attempt is published zero-based
AttemptOf_ZeroBased(i) == i

\* setAttempt(i + 1)
AttemptOf(i) == i + 1

\* The loop from its test for index k, with lastError le, up to the next await
\* or the throw after the loop
RetryLoopFrom(k, opts, le) ==
    /\ retryI' = k
    /\ lastError' = le
    /\ IF LoopContinues(k, opts.maxAttempts)
       THEN /\ attempt' = AttemptOf(k)
            /\ UNCHANGED retThrown
            /\ IF k > 0
               THEN /\ retrying' = TRUE
                    /\ waits' = Append(waits, WaitTime(opts, k))
                    /\ retryPc' = "waiting"
                    /\ UNCHANGED nCalls
               ELSE /\ retryPc' = "calling"
                    /\ nCalls' = nCalls + 1
                    /\ UNCHANGED <<retrying, waits>>
       ELSE /\ retrying' = FALSE
            /\ attempt' = 0
            /\ retThrown' = <<IF le # <<>> THEN le[1] ELSE Err("Max retry attempts reached")>>
            /\ retryPc' = "threw"
            /\ UNCHANGED <<nCalls, waits>>

\* execute(), called on a hook rendered with the options opts
Execute(opts) ==
    /\ retryPc = "idle"
    /\ retryOpts' = opts
    /\ RetryLoopFrom(0, opts, <<>>)
    /\ UNCHANGED <<retResult, rejections, resolved>>

\* The backoff timer of execute() fires: fn() is invoked
WaitElapsed ==
    /\ retryPc = "waiting"
    /\ retryPc' = "calling"
    /\ nCalls' = nCalls + 1
    /\ UNCHANGED <<retryOpts, retryI, retrying, attempt, lastError, retResult, retThrown,
                   rejections, resolved, waits>>

\* The promise of fn() resolves with v
FnResolves(v) ==
    /\ retryPc = "calling"
    /\ resolved' = <<v>>
    /\ retrying' = FALSE
    /\ attempt' = 0
    /\ retResult' = <<v>>
    /\ retryPc' = "returned"
    /\ UNCHANGED <<retryOpts, retryI, lastError, retThrown, nCalls, rejections, waits>>

\* The promise of fn() rejects with e
FnRejects(e) ==
    /\ retryPc = "calling"
    /\ rejections' = Append(rejections, e)
    /\ LET le == <<RecordError(lastError, e)>>
       IN IF IsLastAttempt(retryI, retryOpts.maxAttempts)
          THEN /\ lastError' = le
               /\ retrying' = FALSE
               /\ attempt' = 0
               /\ retThrown' = le
               /\ retryPc' = "threw"
               /\ UNCHANGED <<retryI, nCalls, waits>>
          ELSE RetryLoopFrom(retryI + 1, retryOpts, le)
    /\ UNCHANGED <<retryOpts, retResult, resolved>>

\* The retry executor alone
RetryOnly == UNCHANGED <<chanVars, gridVars, radarVars, appVars, anaVars, selVars>>

\* ========================================================================
\* useAnalysis: analyze() with retry and timeout (unnamed/part_001)
\* ========================================================================
InitAnalysis ==
    /\ online = TRUE
    /\ anaPc = "idle"
    /\ anaAttempt = 0
    /\ analyzing = FALSE
    /\ analysisError = NoError
    /\ anaLastError = <<>>
    /\ anaRet = <<>>
    /\ timeoutId = "none"
    /\ aborted = FALSE
    /\ nFetches = 0
    /\ anaWaits = <<>>
    /\ over30 = FALSE
    /\ outcomes = <<>>

\* const maxAttempts = 3, const baseDelay = 1000
AnalyzeMaxAttempts == 3
AnalyzeBaseDelayMs == 1000

\* The messages of the errors analyze() can end an attempt with
ErrOffline == "No internet connection. Please check your network."
ErrTimeout == "Request timeout: Analysis took too long"
ErrHttp == "Analysis failed: 500 E"
ErrNetwork == "Failed to fetch"
ErrJson == "Unexpected end of JSON input"

\* Mutant: the loop gives up after the first failed attempt
AnalyzeIsLast_First(k) == k = 0

\* if (attempt === maxAttempts - 1) break
AnalyzeIsLast(k) == k = AnalyzeMaxAttempts - 1

\* new AbortController(), setTimeout(() => controller.abort(), 30000), fetch(...)
StartFetch ==
    /\ timeoutId' = "pending"
    /\ aborted' = FALSE
    /\ over30' = FALSE
    /\ nFetches' = nFetches + 1
    /\ anaPc' = "fetching"

\* The outer catch of the loop body for an attempt that threw the error msg,
\* up to the next await or the return
AttemptFails(msg, kind) ==
    /\ outcomes' = Append(outcomes, kind)
    /\ anaLastError' = <<msg>>
    /\ IF AnalyzeIsLast(anaAttempt) \/ ~(anaAttempt + 1 < AnalyzeMaxAttempts)
       THEN /\ analysisError' = msg
            /\ analyzing' = FALSE
            /\ anaRet' = <<"null">>
            /\ anaPc' = "done"
            /\ UNCHANGED <<anaAttempt, anaWaits>>
       ELSE /\ anaAttempt' = anaAttempt + 1
            /\ anaWaits' = Append(anaWaits, AnalyzeBaseDelayMs * 2^((anaAttempt + 1) - 1))
            /\ anaPc' = "waiting"
            /\ UNCHANGED <<analysisError, analyzing, anaRet>>

\* analyze(target), with navigator.onLine = on
Analyze(on) ==
    /\ anaPc = "idle"
    /\ online' = on
    /\ IF ~on
       THEN /\ analysisError' = ErrOffline
            /\ analyzing' = FALSE
            /\ anaRet' = <<"null">>
            /\ anaPc' = "done"
            /\ UNCHANGED <<timeoutId, aborted, over30, nFetches>>
       ELSE /\ analysisError' = NoError
            /\ analyzing' = TRUE
            /\ StartFetch
            /\ UNCHANGED anaRet
    /\ UNCHANGED <<anaAttempt, anaLastError, anaWaits, outcomes>>

\* fetch() resolves with a Response (its headers), ok or not, before the timer
FetchResponds(ok) ==
    /\ anaPc = "fetching"
    /\ timeoutId' = "cleared"
    /\ anaPc' = IF ok THEN "json" ELSE "text"
    /\ UNCHANGED <<online, anaAttempt, analyzing, analysisError, anaLastError, anaRet,
                   aborted, nFetches, anaWaits, over30, outcomes>>

\* fetch() rejects with a network error before the timer
FetchFails ==
    /\ anaPc = "fetching"
    /\ timeoutId' = "cleared"
    /\ AttemptFails(ErrNetwork, "network")
    /\ UNCHANGED <<online, aborted, nFetches, over30>>

\* The 30 s timer fires: controller.abort(), fetch() rejects with an AbortError
TimeoutFires ==
    /\ timeoutId = "pending"
    /\ timeoutId' = "fired"
    /\ aborted' = TRUE
    /\ over30' = TRUE
    /\ AttemptFails(ErrTimeout, "timeout")
    /\ UNCHANGED <<online, nFetches>>

\* response.text() of a response that is not ok resolves
TextRead ==
    /\ anaPc = "text"
    /\ AttemptFails(ErrHttp, "http")
    /\ UNCHANGED <<online, timeoutId, aborted, nFetches, over30>>

\* response.json() settles: the analysis, or a SyntaxError
JsonRead(valid) ==
    /\ anaPc = "json"
    /\ IF valid
       THEN /\ outcomes' = Append(outcomes, "ok")
            /\ analyzing' = FALSE
            /\ anaRet' = <<"analysis">>
            /\ anaPc' = "done"
            /\ UNCHANGED <<anaAttempt, analysisError, anaLastError, anaWaits>>
       ELSE AttemptFails(ErrJson, "badjson")
    /\ UNCHANGED <<online, timeoutId, aborted, nFetches, over30>>

\* The body of the response is still being read 30 s after the request began
BodyStalls ==
    /\ anaPc \in {"text", "json"}
    /\ ~over30
    /\ over30' = TRUE
    /\ UNCHANGED <<online, anaPc, anaAttempt, analyzing, analysisError, anaLastError,
                   anaRet, timeoutId, aborted, nFetches, anaWaits, outcomes>>

\* The backoff timer of analyze() fires: the next attempt starts
BackoffElapsed ==
    /\ anaPc = "waiting"
    /\ StartFetch
    /\ UNCHANGED <<online, anaAttempt, analyzing, analysisError, anaLastError, anaRet,
                   anaWaits, outcomes>>

\* analyze() alone
AnalysisOnly == UNCHANGED <<chanVars, gridVars, radarVars, appVars, retryVars, selVars>>

\* ========================================================================
\* Selection: list click and canvas hit-test
\* ========================================================================
\* ========================================================================
\* App: the start control and the analyze button (SimulationControls.tsx, App.tsx)
\* ========================================================================
\* Mutant: the control stays enabled while tracking
StartDisabled_IgnoresTracking(c, t) == ~c

\* disabled={!connected || tracking}
StartDisabled(c, t) == ~c \/ t

\* The start control or its callback was used
StartLogged(via, c, t, inv) ==
    startLog' = <<[via |-> via, connected |-> c, tracking |-> t, invoked |-> inv]>>

\* A click on the start button of DetectionControls rendered with the props
\* connected = c and tracking = t, its onStartDetection being the
\* handleStartDetection of the same render: a disabled button dispatches no click
StartClick(c, t) ==
    /\ mounted["ws"] = "yes"
    /\ IF StartDisabled(c, t)
       THEN /\ StartLogged("click", c, t, FALSE)
            /\ UNCHANGED <<appError, tracking, targets, targetsOk, needRender,
                           socks, nSends, sendRet>>
       ELSE /\ StartLogged("click", c, t, TRUE)
            /\ StartDetection(c)
            /\ needRender' = TRUE
    /\ UNCHANGED <<status, selectedDroneId, onmsgSock, onmsgSel, lastPayload, rx, rxFlip,
                   analysisResult, analyzeTarget>>
    /\ UNCHANGED <<mounted, effectWs, socket, connected, error, reconnectTimeoutRef,
                   reconnectAttempts, timers, torn, streak, scheduled, terminalCount>>
    /\ UNCHANGED <<gridVars, radarVars, retryVars, anaVars, reported, clicks>>

\* handleStartDetection called by a holder of the callback of a render in
\* which connected was c
HandleStartDetection(c) ==
    /\ mounted["ws"] = "yes"
    /\ StartLogged("call", c, tracking, TRUE)
    /\ StartDetection(c)
    /\ needRender' = TRUE
    /\ UNCHANGED <<status, selectedDroneId, onmsgSock, onmsgSel, lastPayload, rx, rxFlip,
                   analysisResult, analyzeTarget>>
    /\ UNCHANGED <<mounted, effectWs, socket, connected, error, reconnectTimeoutRef,
                   reconnectAttempts, timers, torn, streak, scheduled, terminalCount>>
    /\ UNCHANGED <<gridVars, radarVars, retryVars, anaVars, reported, clicks>>

ErrNoDrone == "No drone selected"
ErrNotFound == "Selected drone not found"

\* handleAnalyze, by a click on the analyze button (rendered while a drone is
\* selected and the list is not empty, disabled while analyzing), up to its
\* await of analyze(selectedTarget)
HandleAnalyze(on) ==
    /\ mounted["ws"] = "yes"
    /\ ~needRender
    /\ targetsOk
    /\ Len(targets) > 0
    /\ selectedDroneId # NullId
    /\ ~analyzing
    /\ anaPc = "idle"
    /\ IF selectedDroneId = NullId
       THEN appError' = ErrNoDrone /\ UNCHANGED <<analysisResult, analyzeTarget, anaVars>>
       ELSE IF ~(\E i \in 1..Len(targets) : targets[i].id = selectedDroneId)
            THEN appError' = ErrNotFound /\ UNCHANGED <<analysisResult, analyzeTarget, anaVars>>
            ELSE /\ analysisResult' = <<>>
                 /\ analyzeTarget' = selectedDroneId
                 /\ appError' = NoError
                 /\ Analyze(on)
    /\ UNCHANGED <<status, targets, targetsOk, tracking, selectedDroneId, needRender,
                   onmsgSock, onmsgSel, lastPayload, rx, rxFlip>>
    /\ UNCHANGED <<chanVars, gridVars, radarVars, retryVars, selVars>>

\* A step of analyze() under the App: the hook state changes, and when
\* analyze() returns an analysis handleAnalyze stores it (if (result) ...)
AnalysisUnderApp ==
    /\ needRender' = TRUE
    /\ analysisResult' = IF anaPc' = "done" /\ anaRet' = <<"analysis">>
                         THEN <<[drone_id |-> analyzeTarget]>> ELSE analysisResult
    /\ UNCHANGED analyzeTarget
    /\ UNCHANGED <<appError, status, targets, targetsOk, tracking, selectedDroneId,
                   onmsgSock, onmsgSel, lastPayload, rx, rxFlip>>
    /\ UNCHANGED <<chanVars, gridVars, radarVars, retryVars, selVars>>

InitSelect == reported = <<>> /\ clicks = <<>> /\ startLog = <<>>

\* The channel managers alone: the App and the grid do not move
ChanOnly == UNCHANGED <<gridVars, radarVars, appVars, retryVars, anaVars, selVars>>

Init == InitChan /\ InitGrid /\ InitRadar /\ InitApp /\ InitRetry /\ InitAnalysis /\ InitSelect

Next ==
    \/ \E m \in Managers : Mount(m) /\ ChanOnly
    \/ \E m \in Managers : \E s \in SockIds(m) : OnOpen(m, s) /\ ChanOnly
    \/ \E m \in Managers : \E s \in SockIds(m) : PeerClosing(m, s) /\ ChanOnly
    \/ \E m \in Managers : \E s \in SockIds(m), e \in BOOLEAN : OnClose(m, s, e) /\ ChanOnly
    \/ \E m \in Managers : \E t \in TimerIds(m) : TimerFire(m, t) /\ ChanOnly
    \/ \E m \in Managers : Cleanup(m) /\ ChanOnly
    \/ \E m \in Managers : HookClose(m) /\ ChanOnly
    \/ \E m \in Managers : \E msg \in OutMessages(m) : Send(m, msg) /\ ChanOnly

Spec == Init /\ [][Next]_vars

\* The DroneGrid component alone, driven by its props
NextGrid ==
    \/ \E list \in TrackLists, gap \in {FastGapMs, WindowMs} :
           GridEffect(list, gap) /\ GridOnly
    \/ GridIdle /\ GridOnly

SpecGrid == Init /\ [][NextGrid]_vars

\* The App on top of its tracking channel
NextApp ==
    \/ Mount("ws") /\ AppSees
    \/ \E s \in SockIds("ws") : OnOpen("ws", s) /\ AppSees
    \/ \E s \in SockIds("ws"), e \in BOOLEAN : OnClose("ws", s, e) /\ AppSees
    \/ \E t \in TimerIds("ws") :
           Len(socks["ws"]) < MaxAppSockets /\ TimerFire("ws", t) /\ AppSees
    \/ AppRender
    \/ AppRenderThrows
    \/ \E frame \in InFrames : AppOnMessage(frame)
    \/ \E i \in 1..Len(targets) : AppListClick(i) /\ UNCHANGED clicks

SpecApp == Init /\ [][NextApp]_vars

\* The selection: the App on an open tracking channel that delivers track
\* lists, the drone list and the canvas being clicked
SelectFrames == {JSONstringify([type |-> "targets", targets |-> l]) : l \in MsgLists}

NextSelect ==
    \/ Mount("ws") /\ AppSees
    \/ \E s \in SockIds("ws") : OnOpen("ws", s) /\ AppSees
    \/ AppRender
    \/ \E frame \in SelectFrames : AppOnMessage(frame)
    \/ \E i \in 1..Len(targets) : AppListClick(i) /\ Clicked("list", targets[i].id)
    \/ \E p \in ClickPoints : GridClick(p) /\ Clicked("canvas", HitTest(targets, p))

SpecSelect == Init /\ [][NextSelect]_vars

\* The App with its user controls over the first connection of the tracking
\* channel: the messages, the list and canvas clicks and the analyze button
NextUser ==
    \/ Mount("ws") /\ AppSees
    \/ \E s \in SockIds("ws") : OnOpen("ws", s) /\ AppSees
    \/ \E s \in SockIds("ws") : PeerClosing("ws", s) /\ ChanOnly
    \/ \E s \in SockIds("ws"), e \in BOOLEAN : OnClose("ws", s, e) /\ AppSees
    \/ AppRender
    \/ AppRenderThrows
    \/ \E frame \in InFrames : AppOnMessage(frame)
    \/ \E i \in 1..Len(targets) : AppListClick(i) /\ UNCHANGED clicks
    \/ \E p \in ClickPoints : GridClick(p) /\ UNCHANGED clicks
    \/ \E on \in BOOLEAN : HandleAnalyze(on)
    \/ FetchResponds(TRUE) /\ AnalysisUnderApp
    \/ JsonRead(TRUE) /\ AnalysisUnderApp

SpecUser == Init /\ [][NextUser]_vars

\* The start control: DetectionControls rendered with any props over the App
\* and clicked, and the callback called directly
NextControls ==
    \/ Mount("ws") /\ AppSees
    \/ \E s \in SockIds("ws") : OnOpen("ws", s) /\ AppSees
    \/ \E s \in SockIds("ws") : PeerClosing("ws", s) /\ ChanOnly
    \/ \E s \in SockIds("ws"), e \in BOOLEAN : OnClose("ws", s, e) /\ AppSees
    \/ AppRender
    \/ \E frame \in SelectFrames : AppOnMessage(frame)
    \/ \E c, t \in BOOLEAN : nSends["ws"] < MaxSends /\ StartClick(c, t)
    \/ \E c \in BOOLEAN : nSends["ws"] < MaxSends /\ HandleStartDetection(c)

SpecControls == Init /\ [][NextControls]_vars

\* The colour mapping applied to the cells of a map, one after the other
NextColor == \E k \in 0..ColorSteps : DrawSector(k) /\ RadarOnly

SpecColor == Init /\ [][NextColor]_vars

\* The two canvas views side by side: renders, frame ticks and unmounts of
\* the CircularRadar, effect runs, interval ticks and unmount of the DroneGrid
NextViews ==
    \/ \E data \in RadarDatas, config \in RadarConfigs, tg \in RadarTargetLists :
           RadarRender(data, config, tg) /\ RadarOnly
    \/ \E f \in rafPending : RadarFrame(f) /\ RadarOnly
    \/ RadarUnmount /\ RadarOnly
    \/ \E list \in TrackLists :
           now < MaxViewNow /\ GridEffect(list, FastGapMs) /\ GridOnly
    \/ now < MaxViewNow /\ GridTicks(1) /\ GridOnly
    \/ GridUnmount /\ GridOnly

SpecViews == Init /\ [][NextViews]_vars

\* A timer set by setTimeout(connect, delay) fires unless it is cleared
SpecFair ==
    Spec /\ \A m \in Managers : WF_vars(\E t \in TimerIds(m) : TimerFire(m, t) /\ ChanOnly)

\* The two channel managers mounted side by side, their events interleaved
NextPair ==
    \/ \E m \in Managers : MountHook(m) /\ ChanOnly
    \/ \E m \in Managers : \E s \in SockIds(m) : OnOpen(m, s) /\ ChanOnly
    \/ \E m \in Managers : \E s \in SockIds(m) : PeerClosing(m, s) /\ ChanOnly
    \/ \E m \in Managers : \E s \in SockIds(m), e \in BOOLEAN : OnClose(m, s, e) /\ ChanOnly
    \/ \E m \in Managers : \E t \in TimerIds(m) :
           Len(socks[m]) < MaxPairSockets /\ TimerFire(m, t) /\ ChanOnly
    \/ \E m \in Managers : Cleanup(m) /\ ChanOnly
    \/ \E m \in Managers : HookClose(m) /\ ChanOnly
    \/ \E m \in Managers : \E msg \in OutMessages(m) :
           nSends[m] < MaxPairSends /\ Send(m, msg) /\ ChanOnly

SpecPair == Init /\ [][NextPair]_vars

\* The retry executor alone, driven by its caller and by fn()
NextRetry ==
    \/ \E opts \in RetryOptions : Execute(opts) /\ RetryOnly
    \/ WaitElapsed /\ RetryOnly
    \/ \E v \in RetryResults : FnResolves(v) /\ RetryOnly
    \/ \E e \in RetryRejections : FnRejects(e) /\ RetryOnly

SpecRetry == Init /\ [][NextRetry]_vars

\* analyze() alone, driven by its caller, the server and the timers
NextAnalysis ==
    \/ \E on \in BOOLEAN : Analyze(on) /\ AnalysisOnly
    \/ \E ok \in BOOLEAN : FetchResponds(ok) /\ AnalysisOnly
    \/ FetchFails /\ AnalysisOnly
    \/ TimeoutFires /\ AnalysisOnly
    \/ TextRead /\ AnalysisOnly
    \/ \E valid \in BOOLEAN : JsonRead(valid) /\ AnalysisOnly
    \/ BodyStalls /\ AnalysisOnly
    \/ BackoffElapsed /\ AnalysisOnly

SpecAnalysis == Init /\ [][NextAnalysis]_vars

\* A timer that was set fires: the backoff wait of analyze() always ends
SpecAnalysisFair == SpecAnalysis /\ WF_vars(BackoffElapsed /\ AnalysisOnly)

\* Every timer that was set and not cleared fires (the backoff wait and the
\* 30 s abort timer); the server answers, or finishes a body, when it pleases
SpecAnalysisTimers ==
    /\ SpecAnalysis
    /\ WF_vars(BackoffElapsed /\ AnalysisOnly)
    /\ WF_vars(TimeoutFires /\ AnalysisOnly)

\* ========================================================================
\* Channel manager claims
\* ========================================================================

\* C1: every disconnect that occurs while attempts < maxAttempts increments
\* attempts and schedules exactly one reconnect timer whose wait is
\* min(1000 * 2^(attempts after the increment), 30000), without itself opening a
\* connection; a timer that fires makes exactly one new connection attempt.
C1_OneReconnectPerDisconnect ==
    [][\A m \in Managers :
         /\ \A s \in SockIds(m) :
              ( /\ socks[m][s].readyState # CLOSED
                /\ socks'[m][s].readyState = CLOSED
                /\ reconnectAttempts[m] < 5 )
              => /\ reconnectAttempts'[m] = reconnectAttempts[m] + 1
                 /\ Len(timers'[m]) = Len(timers[m]) + 1
                 /\ \A t \in TimerIds(m) : timers'[m][t] = timers[m][t]
                 /\ timers'[m][Len(timers'[m])].state = "pending"
                 /\ timers'[m][Len(timers'[m])].delay
                        = Min2(1000 * 2^(reconnectAttempts[m] + 1), 30000)
                 /\ Len(socks'[m]) = Len(socks[m])
         /\ \A t \in TimerIds(m) :
              (timers[m][t].state = "pending" /\ timers'[m][t].state = "fired")
              => /\ Len(socks'[m]) = Len(socks[m]) + 1
                 /\ socks'[m][Len(socks'[m])].readyState = CONNECTING
                 /\ \A s \in SockIds(m) : socks'[m][s] = socks[m][s]
      ]_vars

\* Witness C1: two disconnects in a row; the first timer (2000 ms) has fired
\* and made the second attempt, the second timer (4000 ms) is pending.
C1_Witness ==
    \E m \in Managers :
        /\ Len(timers[m]) = 2
        /\ timers[m][1] = [delay |-> 2000, state |-> "fired"]
        /\ timers[m][2] = [delay |-> 4000, state |-> "pending"]
        /\ Len(socks[m]) = 2
        /\ reconnectAttempts[m] = 2

\* C2: a disconnect after maxAttempts reconnects were scheduled without an
\* Open in between (the 6th disconnect in a row) schedules no timer and
\* publishes the terminal error, once; 6 disconnects in a row have scheduled
\* exactly 5 reconnects; from then on the manager is Closed with no connection
\* and no pending timer, and stays so.
C2_Terminal(m) == terminalCount[m] > 0
C2_Halted(m) ==
    /\ LiveSockets(m) = {}
    /\ PendingTimers(m) = {}
    /\ ~connected[m]
    /\ socket[m] = 0
    /\ error[m] = ErrFailed(m)
C2_BudgetExhausted ==
    /\ [][\A m \in Managers : \A s \in SockIds(m) :
            ( /\ socks[m][s].readyState # CLOSED
              /\ socks'[m][s].readyState = CLOSED )
            => /\ streak[m] < 5 => (Len(timers'[m]) = Len(timers[m]) + 1
                                      /\ terminalCount'[m] = 0)
               /\ streak[m] >= 5 => ( /\ timers'[m] = timers[m]
                                      /\ scheduled'[m] = 5
                                      /\ error'[m] = ErrFailed(m)
                                      /\ terminalCount[m] = 0
                                      /\ terminalCount'[m] = 1 )
         ]_vars
    /\ [](\A m \in Managers : C2_Terminal(m) => (C2_Halted(m) /\ streak[m] = 6))
    /\ [][\A m \in Managers : C2_Terminal(m) =>
             (socks'[m] = socks[m] /\ timers'[m] = timers[m])]_vars

\* Witness C2: six disconnects in a row, five timers scheduled, terminal error.
C2_Witness ==
    \E m \in Managers :
        /\ streak[m] = 6
        /\ scheduled[m] = 5
        /\ Len(timers[m]) = 5
        /\ terminalCount[m] = 1
        /\ error[m] = ErrFailed(m)

\* C3 (as claimed): once close() or the effect cleanup has been called, no
\* reconnect timer is pending, and none is ever scheduled again.
C3_NoReconnectAfterClose ==
    \A m \in Managers : torn[m] => PendingTimers(m) = {}

\* C4: a send() returns true and transmits the serialized message on the open
\* connection iff the manager's connection is OPEN; otherwise it returns false,
\* transmits nothing and does not throw; either way the session state
\* (connection states, published handle, attempts, timers, error) is unchanged.
C4_ConnOpen(m) == \E s \in SockIds(m) : socks[m][s].readyState = OPEN
C4_SendIffOpen ==
    [][\A m \in Managers : nSends'[m] # nSends[m] =>
         /\ sendRet'[m] = (IF C4_ConnOpen(m) THEN "true" ELSE "false")
         /\ C4_ConnOpen(m) =>
              \E s \in SockIds(m), msg \in OutMessages(m) :
                 /\ socks[m][s].readyState = OPEN
                 /\ socks'[m] = [socks[m] EXCEPT ![s].tx = Append(@, <<"json", msg>>)]
         /\ ~C4_ConnOpen(m) => socks'[m] = socks[m]
         /\ UNCHANGED <<socket, connected, error, reconnectAttempts, timers,
                        reconnectTimeoutRef, mounted>>
      ]_vars

\* Witness C4: one send went out on an open connection, and a later send was
\* refused while the handle was still published (connection closing).
C4_Witness ==
    \E m \in Managers :
        /\ nSends[m] = 2
        /\ sendRet[m] = "false"
        /\ socket[m] # 0
        /\ Len(socks[m][socket[m]].tx) = 1

\* C5: every open resets attempts to 0, clears the error and publishes the
\* handle (connected, socket = the opened connection); hence the terminal error
\* only ever follows six disconnects with no Open in between.
C5_OpenResets ==
    /\ [][\A m \in Managers : \A s \in SockIds(m) :
            (socks[m][s].readyState = CONNECTING /\ socks'[m][s].readyState = OPEN)
            => /\ reconnectAttempts'[m] = 0
               /\ error'[m] = NoError
               /\ connected'[m]
               /\ socket'[m] = s
         ]_vars
    /\ [](\A m \in Managers : (terminalCount[m] > 0 \/ error[m] = ErrFailed(m))
                                => streak[m] > 5)

\* Witness C5: more than maxAttempts disconnects overall, the last reconnect
\* opened after an error: connected, attempts 0, no terminal error.
C5_Witness ==
    \E m \in Managers :
        /\ Len(socks[m]) > 6
        /\ connected[m]
        /\ socket[m] = Len(socks[m])
        /\ reconnectAttempts[m] = 0
        /\ error[m] = NoError
        /\ terminalCount[m] = 0
        /\ \E t \in TimerIds(m) : timers[m][t].delay = 16000

\* ========================================================================
\* Track-history store claims
\* ========================================================================

\* C8: in every reachable state no entity's history holds more than 50
\* entries, whatever the sequence of updates (repeated ids in a list, updates
\* arriving faster than the 5 s window expires).
C8_HistoryCap ==
    \A id \in DOMAIN historyRef : Len(historyRef[id]) <= 50

\* Witness C8: a list with a repeated id, updates 100 ms apart and nothing old
\* enough to age out: the cap has evicted entries and the history is full.
C8_Witness ==
    /\ gridTargets = <<T3, T3b>>
    /\ lastShift = 2
    /\ now < WindowMs
    /\ Len(historyRef[3]) = 50

\* C9 (as claimed): whenever the store has just been updated or a render tick
\* has just drawn the trails, every retained entry is at most 5000 ms old.
C9_WindowAtUpdateAndTick ==
    lastDraw \in {"effect", "tick"} =>
        \A id \in DOMAIN historyRef : \A i \in 1..Len(historyRef[id]) :
            now - historyRef[id][i].time <= 5000

\* C10: after each update the entities that have a history are exactly the
\* ids of the latest track list, each with at least one entry; the history of
\* an entity absent from the list is deleted whole.
C10_HistoryIffCurrent ==
    lastDraw # "none" =>
        /\ DOMAIN historyRef = {gridTargets[i].id : i \in 1..Len(gridTargets)}
        /\ \A id \in DOMAIN historyRef : Len(historyRef[id]) >= 1
        /\ removedIds \cap DOMAIN historyRef = {}

\* Witness C10: a list with id 1, then 100 ms later an empty list: the
\* history recorded for id 1 was deleted (not aged out) and none is left.
C10_Witness ==
    /\ lastDraw = "effect"
    /\ now = 2 * FastGapMs
    /\ gridTargets = <<>>
    /\ removedIds = {1}
    /\ DOMAIN historyRef = {}

\* ========================================================================
\* Message router claims
\* ========================================================================
IsTargetsFrame(frame) ==
    /\ frame # <<>>
    /\ frame[1] = "json"
    /\ frame[2].type = "targets"

IsTrackList(frame) == IsTargetsFrame(frame) /\ HasPayload(frame[2])

\* C6: after any sequence of handled messages the current track set is
\* exactly the payload of the most recent 'targets' message (never a merge of
\* an older and a newer list); a message of another kind, or an undecodable
\* frame, leaves the track set unchanged.
C6_LatestTargetsWin ==
    /\ []((lastPayload # <<>> /\ targetsOk) => targets = lastPayload[1])
    /\ [][rxFlip' # rxFlip =>
            IF IsTrackList(rx')
            THEN targets' = rx'[2].targets /\ targetsOk'
            ELSE IF IsTargetsFrame(rx')
                 THEN ~targetsOk'
                 ELSE targets' = targets /\ targetsOk' = targetsOk]_vars

\* Witness C6: a list with drone 1 was current (drone 1 was selected in it),
\* then the list <<T2>> replaced it, then a status message was handled.
C6_Witness ==
    /\ targets = <<T2>>
    /\ lastPayload = <<(<<T2>>)>>
    /\ rx = <<"json", [type |-> "status", message |-> "S1"]>>
    /\ onmsgSel = 1
    /\ selectedDroneId = NullId

\* C7: when a track-list update is handled while a drone is selected, the
\* selection becomes none if the list does not contain the selected id and is
\* kept if it does.
C7_SelectionFollowsList ==
    [][(rxFlip' # rxFlip /\ IsTrackList(rx') /\ selectedDroneId # NullId) =>
          IF \E i \in 1..Len(rx'[2].targets) : rx'[2].targets[i].id = selectedDroneId
          THEN selectedDroneId' = selectedDroneId
          ELSE selectedDroneId' = NullId]_vars

\* Witness C7: drone 1 was selected, the update <<T2>> has just been handled by
\* the closure that captured selection 1, and the selection is none.
C7_Witness ==
    /\ rx = <<"json", [type |-> "targets", targets |-> <<T2>>]>>
    /\ targets = <<T2>>
    /\ onmsgSel = 1
    /\ selectedDroneId = NullId

\* C26: while execute runs, attempt is the 1-based index of the in-flight
\* attempt (the call of fn being awaited, or the one the backoff wait leads
\* to) and retrying is true exactly from the first backoff wait on; after
\* execute completes, by a result or by the final failure, retrying = false
\* and attempt = 0.
C26_AttemptAndRetrying ==
    /\ retryPc = "calling" => (attempt = nCalls /\ retrying = (waits # <<>>))
    /\ retryPc = "waiting" => (attempt = nCalls + 1 /\ retrying)
    /\ retryPc \in {"returned", "threw"} => (~retrying /\ attempt = 0)

\* Witness C26: the third call of fn is in flight after two backoff waits,
\* with attempt = 3 and retrying set.
C26_Witness ==
    /\ retryPc = "calling"
    /\ nCalls = 3
    /\ Len(waits) = 2
    /\ attempt = 3
    /\ retrying

\* ========================================================================
\* Message router claims: unknown kinds, undecodable and invalid frames
\* ========================================================================
IsUnknownFrame(frame) ==
    /\ frame # <<>>
    /\ frame[1] = "json"
    /\ frame[2].type \notin {"targets", "error", "status"}

IsUndecodable(frame) == frame # <<>> /\ frame[1] # "json"

ChannelUntouched ==
    UNCHANGED <<mounted, socks, effectWs, socket, connected, error, reconnectTimeoutRef,
                reconnectAttempts, timers, torn>>

\* C23: an inbound message of an unknown kind is ignored: handling it changes
\* none of targets, selection, error and status, it does not close the channel
\* (no socket, timer or connection state of the manager changes), and the
\* handler stays installed on the open socket, so later messages are handled.
C23_UnknownKindIgnored ==
    [][(rxFlip' # rxFlip /\ IsUnknownFrame(rx')) =>
          /\ UNCHANGED <<targets, targetsOk, selectedDroneId, appError, status, tracking>>
          /\ ChannelUntouched
          /\ onmsgSock' = onmsgSock
          /\ socks'["ws"][onmsgSock'].readyState = OPEN]_vars

\* Witness C23: with a track list, a selection, a status and an error in place,
\* the unknown message has just been handled on the open channel.
C23_Witness ==
    /\ rx = <<"json", [type |-> "bogus"]>>
    /\ targets = <<T1, T2>>
    /\ selectedDroneId = 2
    /\ status = "S1"
    /\ appError = ErrParse
    /\ socks["ws"][onmsgSock].readyState = OPEN

\* C24: a frame that cannot be decoded sets the error 'Failed to parse server
\* message' and nothing else: the channel stays open, no reconnect is
\* scheduled, and the track list, the selection and the status are unchanged.
C24_UndecodableSetsErrorOnly ==
    [][(rxFlip' # rxFlip /\ IsUndecodable(rx')) =>
          /\ appError' = "Failed to parse server message"
          /\ UNCHANGED <<targets, targetsOk, selectedDroneId, status, tracking>>
          /\ ChannelUntouched
          /\ socks'["ws"][onmsgSock'].readyState = OPEN]_vars

\* Witness C24: with a track list, a selection and a status in place, the
\* undecodable frame has just been handled and the parse error is set.
C24_Witness ==
    /\ rx = <<"garbage">>
    /\ appError = ErrParse
    /\ targets = <<T1, T2>>
    /\ selectedDroneId = 2
    /\ status = "S1"
    /\ socks["ws"][onmsgSock].readyState = OPEN
    /\ \A t \in 1..Len(timers["ws"]) : timers["ws"][t].state # "pending"

\* C25: a frame that is partial or invalid (an undecodable text, or a
\* 'targets' message whose payload is missing) is discarded whole: the track
\* list and the selection are the same after handling as before. (The
\* history store is not touched by the handler in any case.)
C25_InvalidFrameDiscarded ==
    [][(rxFlip' # rxFlip /\ (IsUndecodable(rx') \/ (IsTargetsFrame(rx') /\ ~IsTrackList(rx')))) =>
          /\ UNCHANGED <<targets, targetsOk, selectedDroneId>>
          /\ UNCHANGED historyRef]_vars

\* ========================================================================
\* User controls claims: selection frame, start of detection
\* ========================================================================
\* C27: selectedDroneId changes only by a user selection (a click on the
\* drone list or a canvas click of the grid) or by the clearing rule of a
\* track-list update (the list handled does not contain the selected id and
\* the selection becomes none). Connection open, close and error events,
\* status, error, unknown and malformed messages, the start of detection and
\* analysis requests leave it unchanged.
C27_SelectionFrame ==
    [][selectedDroneId' # selectedDroneId =>
          \/ \E i \in 1..Len(targets) : AppListClick(i)
          \/ \E p \in ClickPoints : GridClick(p)
          \/ /\ rxFlip' # rxFlip
             /\ IsTrackList(rx')
             /\ ~(\E i \in 1..Len(rx'[2].targets) : rx'[2].targets[i].id = selectedDroneId)
             /\ selectedDroneId' = NullId]_vars

\* Witness C27: drone 1 is still selected after detection was started, a
\* status message and then an undecodable frame were handled, an analysis was
\* requested and returned, and the connection was lost with an error.
C27_Witness ==
    /\ selectedDroneId = 1
    /\ tracking
    /\ status = "S1"
    /\ rx = <<"garbage">>
    /\ anaPc = "done"
    /\ analysisResult # <<>>
    /\ ~connected["ws"]
    /\ error["ws"] # NoError

\* C28: a message whose send reported failure is not treated as sent: a
\* start_tracking whose send returned false is not recorded as an active
\* tracking session (the caller falls back or re-issues the operation).
C28_FailedStartNotRecorded ==
    sendRet["ws"] = "false" => ~tracking

\* C29: a click on the start control invokes the callback exactly when the
\* control was rendered connected and not tracking; a click on the disabled
\* control changes nothing. handleStartDetection invoked while disconnected
\* sets the error 'WebSocket not connected', sends nothing and leaves
\* tracking and targets unchanged.
C29_StartOnlyWhenConnectedIdle ==
    [][startLog' # startLog =>
          LET l == startLog'[1]
          IN /\ l.via = "click" => (l.invoked <=> (l.connected /\ ~l.tracking))
             /\ ~l.invoked =>
                    UNCHANGED <<tracking, targets, targetsOk, appError, socks, nSends, sendRet>>
             /\ (l.invoked /\ ~l.connected) =>
                    /\ appError' = "WebSocket not connected"
                    /\ UNCHANGED <<tracking, targets, targetsOk, socks, nSends, sendRet>>]_vars

\* Witness C29: with the list <<T1>> shown and the connection lost, the
\* callback was invoked while disconnected: the error is set, the list and
\* tracking are as before and only the automatic start was ever sent.
C29_Witness ==
    /\ startLog = <<[via |-> "call", connected |-> FALSE, tracking |-> TRUE, invoked |-> TRUE]>>
    /\ appError = "WebSocket not connected"
    /\ targets = <<T1>>
    /\ tracking
    /\ ~connected["ws"]
    /\ nSends["ws"] = 1

\* ========================================================================
\* CircularRadar claims
\* ========================================================================
\* C30: the amplitude-to-colour mapping is monotonic: of two drawn cells (both
\* at or above the visibility threshold 0.01) the one with the larger
\* normalized value has a red channel at least as large and a green channel
\* at most as large, also across the band boundaries 0.33 and 0.66.
C30_ColorMonotonic ==
    [][(radarLast.drawn /\ radarLast'.drawn /\ radarLast.v < radarLast'.v) =>
          (radarLast'.r >= radarLast.r /\ radarLast'.g <= radarLast.g)]_vars

\* Witness C30: the cell at the boundary 0.66 is drawn with the first colour
\* of the third band, full red and green 127.
C30_Witness ==
    /\ radarLast.drawn
    /\ 100 * radarLast.v = BandHigh * ColorSteps
    /\ radarLast.r = 255
    /\ radarLast.g = 127

\* ========================================================================
\* Channel manager claims: delay sequence, counter range, teardown
\* ========================================================================

\* C17: the reconnect delay is min(1000 * 2^n, 30000) ms with n the attempt
\* counter after its increment; the k-th disconnect in a row waits the k-th of
\* 2000, 4000, 8000, 16000, 30000 ms; no delay is above 30000 ms, and within
\* a row of failures a delay is never below the one before it.
C17_DelaySequence ==
    /\ [](\A m \in Managers : \A t \in TimerIds(m) : timers[m][t].delay <= 30000)
    /\ [][\A m \in Managers : Len(timers'[m]) = Len(timers[m]) + 1 =>
            LET d == timers'[m][Len(timers'[m])].delay
            IN /\ d = Min2(1000 * 2^(reconnectAttempts'[m]), 30000)
               /\ streak'[m] \in 1..5
               /\ d = <<2000, 4000, 8000, 16000, 30000>>[streak'[m]]
               /\ streak[m] > 0 => d >= timers[m][Len(timers[m])].delay
         ]_vars

\* Witness C17: five disconnects in a row have set the five timers of the
\* sequence, the last one at the cap.
C17_Witness ==
    \E m \in Managers :
        /\ streak[m] = 5
        /\ Len(timers[m]) = 5
        /\ \A k \in 1..5 : timers[m][k].delay = <<2000, 4000, 8000, 16000, 30000>>[k]
        /\ timers[m][5].state = "pending"

\* C19: in every reachable state 0 <= attempts <= 5; attempts changes only by
\* +1 on a disconnect that schedules a reconnect timer, or by a reset to 0 on
\* an open.
C19_AttemptsRange ==
    /\ [](\A m \in Managers : reconnectAttempts[m] \in 0..5)
    /\ [][\A m \in Managers : reconnectAttempts'[m] # reconnectAttempts[m] =>
            \/ /\ reconnectAttempts'[m] = reconnectAttempts[m] + 1
               /\ \E s \in SockIds(m) : /\ socks[m][s].readyState # CLOSED
                                        /\ socks'[m][s].readyState = CLOSED
               /\ Len(timers'[m]) = Len(timers[m]) + 1
               /\ timers'[m][Len(timers'[m])].state = "pending"
            \/ /\ reconnectAttempts'[m] = 0
               /\ \E s \in SockIds(m) : /\ socks[m][s].readyState = CONNECTING
                                        /\ socks'[m][s].readyState = OPEN
         ]_vars

\* Witness C19: the counter went up to 5 (the timer of the fifth attempt was
\* set) and the connection made by that timer opened and reset it to 0.
C19_Witness ==
    \E m \in Managers :
        /\ Len(timers[m]) = 5
        /\ timers[m][5] = [delay |-> 30000, state |-> "fired"]
        /\ reconnectAttempts[m] = 0
        /\ connected[m]
        /\ socket[m] = 6

\* C20 (as claimed): after close() or the effect cleanup, no connection of the
\* manager is open or connecting.
C20_TeardownReleases ==
    \A m \in Managers : torn[m] =>
        \A s \in SockIds(m) : socks[m][s].readyState \notin {CONNECTING, OPEN}

\* ========================================================================
\* Retry executor claims
\* ========================================================================

\* C11: execute() invokes fn at most maxAttempts times, never a second
\* invocation while one is unsettled; when an invocation resolves, execute()
\* returns that value in the same step and fn is not invoked again.
C11_AtMostMaxAttempts ==
    /\ [](nCalls <= retryOpts.maxAttempts)
    /\ [](nCalls - (Len(rejections) + Len(resolved)) \in {0, 1})
    /\ [](resolved # <<>> => /\ retryPc = "returned"
                             /\ retResult = resolved
                             /\ nCalls = Len(rejections) + 1)
    /\ [][resolved # <<>> => nCalls' = nCalls]_vars

\* Witness C11: default options; the first invocation rejected, the second
\* resolved with R1 and execute() returned R1 after two invocations of three.
C11_Witness ==
    /\ retryOpts = [maxAttempts |-> 3, delay |-> 1000, backoff |-> TRUE]
    /\ Len(rejections) = 1
    /\ resolved = <<"R1">>
    /\ retResult = <<"R1">>
    /\ nCalls = 2
    /\ retryPc = "returned"

\* C12: when maxAttempts invocations have all rejected, execute() has thrown,
\* and what it threw is the error of the last invocation (the Error itself;
\* Error('Unknown error') when the rejection value is not an Error), whatever
\* the earlier invocations rejected with; it throws only then, and it returns
\* only a value that fn resolved with, for every maxAttempts (0 included:
\* no invocation, and execute() throws).
C12_FailsWithLastError ==
    /\ (retryPc # "idle" /\ Len(rejections) = retryOpts.maxAttempts) =>
           /\ retryPc = "threw"
           /\ retThrown # <<>>
           /\ retResult = <<>>
           /\ rejections # <<>> =>
                LET last == rejections[Len(rejections)]
                IN retThrown[1] = IF last.isError THEN last
                                  ELSE [isError |-> TRUE, message |-> "Unknown error"]
    /\ retryPc = "threw" => Len(rejections) = retryOpts.maxAttempts
    /\ retryPc = "returned" => (resolved # <<>> /\ retResult = resolved)
    /\ retResult # <<>> => retryPc = "returned"

\* Witness C12: three invocations rejected with E1, E1, E2 and execute() threw E2.
C12_Witness ==
    /\ retryOpts.maxAttempts = 3
    /\ rejections = <<Err("E1"), Err("E1"), Err("E2")>>
    /\ retThrown = <<Err("E2")>>
    /\ retryPc = "threw"
    /\ nCalls = 3

\* C18 (as claimed): execute() waits before every attempt except the first, and
\* the wait before the attempt of index i >= 1 is min(delay * 2^(i-1), 30000)
\* with backoff, the constant delay without.
C18_WaitsFollowBackoff ==
    LET started == nCalls + (IF retryPc = "waiting" THEN 1 ELSE 0)
    IN /\ Len(waits) = (IF started > 0 THEN started - 1 ELSE 0)
       /\ \A k \in 1..Len(waits) :
              waits[k] = IF retryOpts.backoff
                         THEN Min2(retryOpts.delay * 2^(k - 1), 30000)
                         ELSE retryOpts.delay

\* ========================================================================
\* Analysis request claims
\* ========================================================================

\* C13 (as claimed): once the request of an attempt has been outstanding for
\* 30 s it has been aborted, and a call whose last attempt exceeded 30 s ends
\* with the 'Request timeout' error.
C13_TimeoutCancelsAndSurfaces ==
    /\ over30 => aborted
    /\ (anaPc = "done" /\ over30) =>
           (analysisError = "Request timeout: Analysis took too long" /\ anaRet = <<"null">>)

\* The ways an attempt can fail, and the message each one surfaces
C14_Message(o) == CASE o = "timeout" -> "Request timeout: Analysis took too long"
                    [] o = "http" -> "Analysis failed: 500 E"
                    [] o = "network" -> "Failed to fetch"
                    [] OTHER -> "Unexpected end of JSON input"
C14_Failures == {"timeout", "http", "network", "badjson"}

\* C14: an attempt that fails (response not ok, network failure, timeout,
\* undecodable body) is followed by a wait and another attempt unless it was
\* the third; a request error is surfaced (error state set, null returned)
\* only when three attempts have failed, and it is the error of the third; an
\* attempt that succeeds ends the call with the analysis and no further
\* request; at most three requests are made; every wait ends in a new attempt.
C14_RetriedUpToThree ==
    /\ [](nFetches <= 3)
    /\ [][Len(outcomes') = Len(outcomes) + 1 =>
            IF outcomes'[Len(outcomes')] = "ok"
            THEN /\ anaPc' = "done"
                 /\ anaRet' = <<"analysis">>
                 /\ analysisError' = "null"
            ELSE IF Len(outcomes') < 3
            THEN /\ anaPc' = "waiting"
                 /\ anaRet' = <<>>
                 /\ analysisError' = "null"
                 /\ analyzing'
            ELSE /\ anaPc' = "done"
                 /\ anaRet' = <<"null">>
                 /\ analysisError' = C14_Message(outcomes'[Len(outcomes')])
         ]_vars
    /\ [](analysisError \in {C14_Message(o) : o \in C14_Failures} =>
             /\ anaPc = "done"
             /\ nFetches = 3
             /\ Len(outcomes) = 3
             /\ \A k \in 1..3 : outcomes[k] \in C14_Failures)
    /\ [][anaPc = "done" => nFetches' = nFetches]_vars
    /\ (anaPc = "waiting") ~> (anaPc = "fetching")

\* Witness C14: the first attempt timed out, the second got a response that
\* was not ok, the third succeeded: the analysis is returned, no error is set.
C14_Witness ==
    /\ anaPc = "done"
    /\ outcomes = <<"timeout", "http", "ok">>
    /\ nFetches = 3
    /\ anaWaits = <<1000, 2000>>
    /\ anaRet = <<"analysis">>
    /\ analysisError = "null"

\* ========================================================================
\* Selection claims
\* ========================================================================

\* C15: a click that hits the selected drone sets the selection to none, a
\* click that hits another drone selects that drone, a click that hits no
\* drone sets the selection to none; a canvas click calls onDroneSelect exactly
\* once, with that outcome.
C15_ClickToggles ==
    [][clicks' # clicks =>
         LET c == clicks'[Len(clicks')]
         IN /\ c.before = selectedDroneId
            /\ selectedDroneId' = (IF c.hit = NullId THEN NullId
                                   ELSE IF c.hit = selectedDroneId THEN NullId
                                   ELSE c.hit)
            /\ c.kind = "canvas" => reported' = <<selectedDroneId'>>
            /\ c.kind = "list" => c.hit # NullId
      ]_vars

\* Witness C15: with drone 2 selected, a canvas click near drone 1 (not on its
\* exact position) selected drone 1; then a canvas click on empty space
\* reported null and the selection is none.
C15_Witness ==
    /\ clicks = << [kind |-> "canvas", hit |-> 1, before |-> 2],
                   [kind |-> "canvas", hit |-> NullId, before |-> 1] >>
    /\ reported = <<NullId>>
    /\ selectedDroneId = NullId
    /\ targets = <<T1, T2>>

\* C16 (as claimed): after the selected drone was clicked (selection off) and
\* clicked again, the selection is still none.
C16_ReclickStaysNone ==
    ( /\ Len(clicks) = 2
      /\ clicks[1].hit # NullId
      /\ clicks[1].before = clicks[1].hit
      /\ clicks[2].hit = clicks[1].hit
      /\ clicks[2].before = NullId
      /\ ~needRender )
    => selectedDroneId = NullId

\* C16 (amended): a re-click toggles back. When a drone that is selected, or
\* that is clicked with nothing selected, is clicked a second time with the
\* selection untouched in between, the second click undoes the first: the
\* selected drone is selected again (selected -> none -> selected), the
\* unselected one is deselected again.
C16_ReclickTogglesBack ==
    [][( /\ clicks' # clicks
         /\ clicks # <<>>
         /\ clicks[Len(clicks)].hit # NullId
         /\ clicks[Len(clicks)].before \in {NullId, clicks[Len(clicks)].hit}
         /\ clicks'[Len(clicks')].hit = clicks[Len(clicks)].hit
         /\ selectedDroneId = (IF clicks[Len(clicks)].before = NullId
                               THEN clicks[Len(clicks)].hit ELSE NullId) )
       => selectedDroneId' = clicks[Len(clicks)].before
      ]_vars

\* Witness C16: drone 1 was selected; its list item was clicked (selection
\* none) and clicked again: drone 1 is selected.
C16_Witness ==
    /\ clicks = << [kind |-> "list", hit |-> 1, before |-> 1],
                   [kind |-> "list", hit |-> 1, before |-> NullId] >>
    /\ selectedDroneId = 1
    /\ ~needRender

\* ========================================================================
\* Independence of the two channel managers
\* ========================================================================
C21_State(m) ==
    <<socks[m], effectWs[m], socket[m], connected[m], error[m],
      reconnectTimeoutRef[m], reconnectAttempts[m], timers[m]>>
C21_Event(m) == <<mounted[m], socks[m], timers[m], nSends[m], torn[m]>>

\* C21: an event of one manager (mount, open, close, error, timer firing,
\* send, close(), cleanup) leaves the connections, the published handle, the
\* attempt counter, the timers and the error of the other manager unchanged,
\* under every interleaving of the events of the two.
C21_ManagersIndependent ==
    [][\A m \in Managers : C21_Event(m)' # C21_Event(m) =>
          \A k \in Managers \ {m} : C21_State(k)' = C21_State(k)]_vars

\* Witness C21: both hooks mounted and interleaved; the tracking channel
\* reconnected and is open with attempts 0 while the analysis channel has failed
\* twice with an error, attempts 2 and its 4000 ms timer pending.
C21_Witness ==
    /\ connected["ws"]
    /\ socket["ws"] = 2
    /\ reconnectAttempts["ws"] = 0
    /\ error["ws"] = NoError
    /\ ~connected["analysis"]
    /\ reconnectAttempts["analysis"] = 2
    /\ error["analysis"] = ErrConnection("analysis")
    /\ timers["analysis"][2] = [delay |-> 4000, state |-> "pending"]

\* ========================================================================
\* Channel manager liveness
\* ========================================================================
C22_TimerPending(m) ==
    /\ timers[m] # <<>>
    /\ timers[m][Len(timers[m])].state = "pending"
C22_Reconnecting(m) ==
    /\ timers[m] # <<>>
    /\ timers[m][Len(timers[m])].state = "fired"
    /\ socks[m][Len(socks[m])].readyState = CONNECTING

\* C22: a disconnect within the budget leaves a reconnect timer pending, and
\* while the manager is not torn down a pending timer leads to a new
\* connection attempt (a new connection in state CONNECTING), timers firing
\* fairly; an attempt the peer accepts makes the manager connected with
\* attempts = 0.
C22_EventuallyReconnects ==
    /\ [][\A m \in Managers : \A s \in SockIds(m) :
            ( /\ socks[m][s].readyState # CLOSED
              /\ socks'[m][s].readyState = CLOSED
              /\ reconnectAttempts[m] < 5 )
            => C22_TimerPending(m)']_vars
    /\ \A m \in Managers :
          (C22_TimerPending(m) /\ ~torn[m] /\ Len(socks[m]) < MaxSockets)
              ~> (C22_Reconnecting(m) \/ torn[m])
    /\ [][\A m \in Managers : \A s \in SockIds(m) :
            (socks[m][s].readyState = CONNECTING /\ socks'[m][s].readyState = OPEN)
            => (connected'[m] /\ socket'[m] = s /\ reconnectAttempts'[m] = 0)]_vars

\* Witness C22: the connection was lost twice; the second timer has fired, the
\* third connection was accepted: connected, attempts 0, never torn down.
C22_Witness ==
    \E m \in Managers :
        /\ ~torn[m]
        /\ Len(timers[m]) = 2
        /\ timers[m][2].state = "fired"
        /\ Len(socks[m]) = 3
        /\ socks[m][3].readyState = OPEN
        /\ connected[m]
        /\ reconnectAttempts[m] = 0

\* ========================================================================
\* C33, C34  DroneGrid: what an update appends, what a trail consists of
\* ========================================================================
C33_Reported(list, id) == SelectSeq(list, LAMBDA e : e.id = id)
C33_NewEntries(list, id, t) ==
    [i \in 1..Len(C33_Reported(list, id)) |-> Entry(C33_Reported(list, id)[i], t)]
C33_Before(id) == IF id \in DOMAIN historyRef THEN historyRef[id] ELSE <<>>
C33_IsSuffix(s, old) == \E n \in 0..Len(old) : s = SubSeq(old, n + 1, Len(old))

\* C33: an update (an effect run at time now') appends to the history of
\* every reported id exactly one entry per reported track, stamped with now'
\* and the projected position: afterwards the history of a reported id is
\* non-empty, it ends with the new entries (for a track with an id of its
\* own: its last entry is the new entry) and everything before them is what
\* was left of the old history, oldest entries dropped first.
C33_UpdateAppendsLast ==
    [][lastDraw' = "effect" =>
          \A id \in ActiveIds(gridTargets') :
              LET new == C33_NewEntries(gridTargets', id, now')
                  k == Len(new)
              IN /\ id \in DOMAIN historyRef'
                 /\ Len(historyRef'[id]) >= k
                 /\ k >= 1
                 /\ SubSeq(historyRef'[id], Len(historyRef'[id]) - k + 1,
                           Len(historyRef'[id])) = new
                 /\ historyRef'[id][Len(historyRef'[id])].time = now'
                 /\ C33_IsSuffix(SubSeq(historyRef'[id], 1, Len(historyRef'[id]) - k),
                                 C33_Before(id))]_vars

\* Witness C33: an update has just run on a history that was at the cap, the
\* oldest entry was shifted out and the last entry is the new one.
C33_Witness ==
    /\ lastDraw = "effect"
    /\ lastShift > 0
    /\ \E id \in DOMAIN historyRef :
          /\ Len(historyRef[id]) = MaxEntries
          /\ historyRef[id][MaxEntries].time = now

\* C34: after every draw, a history with fewer than 2 entries has no segment
\* and a history of len >= 2 entries has exactly len - 1 segments, the i-th
\* joining entry i to entry i + 1 in stored order.
C34_TrailSegments ==
    /\ DOMAIN drawnTrails = DOMAIN historyRef
    /\ \A id \in DOMAIN historyRef :
          LET h == historyRef[id]
              segs == drawnTrails[id]
          IN /\ Len(h) < 2 => segs = <<>>
             /\ Len(h) >= 2 =>
                   /\ Len(segs) = Len(h) - 1
                   /\ \A i \in 1..(Len(h) - 1) :
                         /\ segs[i].from = <<h[i].x, h[i].y>>
                         /\ segs[i].to = <<h[i + 1].x, h[i + 1].y>>

\* Witness C34: one draw showed a history of one entry (no segment) next to a
\* history of two entries (one segment).
C34_Witness ==
    /\ lastDraw # "none"
    /\ \E id \in DOMAIN historyRef : Len(historyRef[id]) = 2 /\ Len(drawnTrails[id]) = 1
    /\ \E id \in DOMAIN historyRef : Len(historyRef[id]) = 1 /\ drawnTrails[id] = <<>>

\* ========================================================================
\* C31, C32, C40  the frame loops of DroneGrid and CircularRadar
\* ========================================================================
C31_GridTick == lastDraw' = "tick" /\ now' # now
C31_RadarTick == lastFrame'.by = "frame" /\ nFrames' # nFrames

\* C31: a render tick (an interval callback of the DroneGrid, an animation
\* frame of the CircularRadar) leaves the track lists, every history buffer
\* and the selection unchanged, and what it draws is the state left by the
\* last completed update: the trails of the stored histories, the targets of
\* the last render.
C31_TickOnlyDraws ==
    [][ /\ C31_GridTick =>
              /\ UNCHANGED <<gridTargets, historyRef, removedIds, targets,
                             selectedDroneId, radarTargets>>
              /\ drawnTrails' = Trails(historyRef)
        /\ C31_RadarTick =>
              /\ UNCHANGED <<radarTargets, radarData, radarConfig, gridTargets,
                             historyRef, targets, selectedDroneId>>
              /\ lastFrame'.targets = radarTargets.list ]_vars

\* Witness C31: both views have ticked after an update: the grid drew a trail
\* from its interval, the radar drew a target from an animation frame.
C31_Witness ==
    /\ lastDraw = "tick"
    /\ \E id \in DOMAIN drawnTrails : drawnTrails[id] # <<>>
    /\ lastFrame.by = "frame"
    /\ lastFrame.targets # <<>>

C32_PropsChanged ==
    \/ radarData' # radarData
    \/ radarConfig' # radarConfig
    \/ MaxValue(radarData') # MaxValue(radarData)

\* C32: the background bitmap is rebuilt, as a fresh canvas computed from the
\* new props alone, in exactly the steps that change data, config or the
\* derived max value (the first render included); every other step (frame
\* ticks, renders that change only the targets, unmount) leaves it alone; and
\* every animate() composites the newest bitmap.
C32_BackgroundRebuild ==
    [][ /\ C32_PropsChanged =>
              /\ nCanvases' = nCanvases + 1
              /\ backgroundCanvasRef' =
                     <<[id |-> nCanvases + 1,
                        cells |-> BuildBackground(radarData', radarConfig',
                                                  MaxValue(radarData'))]>>
        /\ ~C32_PropsChanged => UNCHANGED <<backgroundCanvasRef, nCanvases>>
        /\ nFrames' # nFrames =>
              /\ backgroundCanvasRef' # <<>>
              /\ lastFrame'.bg = backgroundCanvasRef'[1].id
              /\ lastFrame'.bg = nCanvases' ]_vars

\* Witness C32: three renders, one of which changed only the targets, built
\* two bitmaps, and a frame tick has composited the second.
C32_Witness ==
    /\ nRenders = 3
    /\ nCanvases = 2
    /\ lastFrame.by = "frame"
    /\ lastFrame.bg = 2

\* C40: each view has at most one active frame loop (one interval timer, one
\* pending frame request), a mounted view has exactly one, an unmounted view
\* has none, and nothing is drawn after the unmount.
C40_OneFrameLoop ==
    /\ [](/\ gridLoops <= 1
          /\ Cardinality(rafPending) <= 1
          /\ gridMounted = "yes" => gridLoops = 1
          /\ radarMounted = "yes" => Cardinality(rafPending) = 1
          /\ gridMounted = "gone" => gridLoops = 0
          /\ radarMounted = "gone" => rafPending = {})
    /\ [][gridMounted = "gone" => UNCHANGED <<lastDraw, drawnTrails, now>>]_vars
    /\ [][radarMounted = "gone" => UNCHANGED <<lastFrame, nFrames, sweepAngleRef>>]_vars

\* Witness C40: both views re-ran their render effect and then unmounted.
C40_Witness ==
    /\ gridMounted = "gone"
    /\ radarMounted = "gone"
    /\ now >= 2 * FastGapMs
    /\ nRenders >= 2
    /\ nFrames >= 3

\* ========================================================================
\* C35  analyze() terminates
\* ========================================================================
\* C35: every analyze call returns, with analyzing back to false, after at
\* most three requests, whatever the server does, timers firing fairly.
C35_AnalyzeTerminates ==
    /\ [](nFetches <= AnalyzeMaxAttempts)
    /\ analyzing ~> (anaPc = "done" /\ ~analyzing)

\* ========================================================================
\* C36  one live connection per channel manager
\* ========================================================================
C36_Live(m) == {s \in SockIds(m) : socks[m][s].readyState \in {CONNECTING, OPEN}}
C36_Pending(m) == {t \in TimerIds(m) : timers[m][t].state = "pending"}

\* C36: a channel manager never has two connections that are connecting or
\* open, and never a pending reconnect timer while one is.
C36_OneLiveConnection ==
    \A m \in Managers :
        /\ Cardinality(C36_Live(m)) <= 1
        /\ C36_Live(m) # {} => C36_Pending(m) = {}

\* Witness C36: after a teardown, two disconnects and two timers that fired,
\* the third connection of the manager is open, alone, with no timer pending.
C36_Witness ==
    \E m \in Managers :
        /\ torn[m]
        /\ Len(socks[m]) = 3
        /\ Len(timers[m]) = 2
        /\ socks[m][3].readyState = OPEN
        /\ C36_Live(m) = {3}
        /\ C36_Pending(m) = {}

\* ========================================================================
\* C37  start_tracking on the open connection
\* ========================================================================
C37_Started(s) ==
    \E i \in 1..Len(socks["ws"][s].tx) :
        socks["ws"][s].tx[i] = <<"json", [type |-> "start_tracking"]>>

\* C37: whenever the App has rendered an open tracking channel with
\* tracking = true, start_tracking was transmitted on the connection that is
\* open now.
C37_StartedOnOpenConnection ==
    ( /\ ~needRender
      /\ tracking
      /\ connected["ws"]
      /\ socket["ws"] # 0
      /\ socks["ws"][socket["ws"]].readyState = OPEN )
    => C37_Started(socket["ws"])

\* ========================================================================
\* C38  the selection refers to a listed track
\* ========================================================================
\* C38: in every state selectedDroneId is null or the id of a track of the
\* current track list.
C38_SelectionInList ==
    \/ selectedDroneId = NullId
    \/ /\ targetsOk
       /\ \E i \in 1..Len(targets) : targets[i].id = selectedDroneId

\* ========================================================================
\* C39  the analysis shown belongs to the selected drone
\* ========================================================================
\* C39: whenever the App has rendered an analysis result while a drone is
\* selected, the result's drone_id is the selected id.
C39_ResultOfSelection ==
    ( /\ ~needRender
      /\ analysisResult # <<>>
      /\ selectedDroneId # NullId )
    => analysisResult[1].drone_id = selectedDroneId

====
